---- MODULE Spec2Model ----
(***************************************************************************)
(* Credential pool (MultiTokenManager), the admin service in front of it   *)
(* and the retry engine of KiroProvider (call_api_with_retry).             *)
(*                                                                         *)
(* Every critical section of the source (one hold of the entries /         *)
(* current_id / active_group_id mutexes) is one atomic step; the points    *)
(* where a task releases the mutexes (between two critical sections, while *)
(* it waits for the refresh lock or for an HTTP answer) are the points     *)
(* where the steps of other tasks interleave: the server runs on a         *)
(* multi-threaded runtime.                                                 *)
(*                                                                         *)
(* Abstractions: a token's expires_at is one of "stale" (absent, past or   *)
(* within 5 minutes), "soon" (within 10 minutes) and "valid"; an error     *)
(* text is the set of the markers is_credential_invalid_error looks for;   *)
(* the pool is backed by a credentials file in array format.               *)
(***************************************************************************)
EXTENDS Integers, Sequences, FiniteSets, TLC

\* ------------------------------------------------------------------------
\* Program constants
\* ------------------------------------------------------------------------
MAX_FAILURES_PER_CREDENTIAL == 3
MAX_RETRIES_PER_CREDENTIAL == 3
MAX_TOTAL_RETRIES == 9

\* ------------------------------------------------------------------------
\* Bounds of the model
\* ------------------------------------------------------------------------
\* largest number of entries the pool holds (load and add)
MaxEntries == 2
\* report_failure is not explored beyond this value of failure_count
MaxFailureCount == 3
\* number of admin operations started in one behaviour
MaxAdminOps == 1
\* number of add and delete operations started in one behaviour of the two
\* admin tasks
MaxAddOps == 2
\* number of token expirations (time passing) in one behaviour
MaxExpiries == 1
\* number of failed writes of the credentials file in one behaviour
MaxIoFailures == 1
\* number of answers other than success (of the upstream and of the refresh
\* endpoint) in one behaviour
MaxFaults == 2
\* largest pool of the retry-budget specification
MaxPool == 4

\* events a streaming response may emit before its end (content and ping)
MaxStreamEvents == 3
\* frames of the upstream body of a non-streaming response
MaxFrames == 3
\* largest priority a credential of the file carries
MaxPriority == 2
\* proxy server tasks the controller spawns in a run
MaxServerTasks == 2

\* ------------------------------------------------------------------------
\* Value domains
\* ------------------------------------------------------------------------
NoGroup == "None"
Groups == {"default", "g2"}
Statuses == {"normal", "invalid"}
NoReason == "None"
RefreshTokenSeq == <<"rtA", "rtB", "rtC", "rtD", "rtE">>

Min(a, b) == IF a <= b THEN a ELSE b

\* is_token_expired: expires_at absent, unparsable or within 5 minutes
is_token_expired(c) == c.expires_at = "stale"

\* is_token_expiring_soon: within 10 minutes ("stale" stands here for a time
\* within 5 minutes; for an absent expires_at the source answers false, and
\* the predicate is only read in the disjunction below, which is true then)
is_token_expiring_soon(c) == c.expires_at \in {"stale", "soon"}

needs_refresh(c) == is_token_expired(c) \/ is_token_expiring_soon(c)

\* is_credential_invalid_error over the markers an error text contains (the
\* markers "credential expired or invalid" and "auth failed" are the
\* source's messages in English)
is_credential_invalid_error(msg) ==
    \/ "TEMPORARILY_SUSPENDED" \in msg
    \/ "temporarily is suspended" \in msg
    \/ "temporarily suspended" \in msg
    \/ "credential expired or invalid" \in msg
    \/ ("401" \in msg /\ ("Unauthorized" \in msg \/ "auth failed" \in msg))
    \/ /\ "403" \in msg
       /\ "Forbidden" \in msg
       /\ \/ "User ID" \in msg
          \/ "revoked" \in msg
          \/ "invalid" \in msg
          \/ "locked" \in msg

\* CredentialEntry::is_available
is_available(e) == ~e.disabled /\ e.credentials.status # "invalid"

\* the in_group closure of acquire_context / switch_to_next
in_group(c, active) == active = NoGroup \/ c.group_id = active

\* index of the first entry with this id, 0 when there is none (iter().find)
FindIdx(es, id) ==
    IF \E i \in 1..Len(es) : es[i].id = id
    THEN CHOOSE i \in 1..Len(es) :
            /\ es[i].id = id
            /\ \A j \in 1..(i-1) : es[j].id # id
    ELSE 0

\* index of the first entry of smallest id among the indexes in S, 0 when S
\* is empty (filter(..).min_by_key(|e| e.id))
MinByIdIdx(es, S) ==
    IF S = {} THEN 0
    ELSE CHOOSE i \in S :
            /\ \A j \in S : es[i].id <= es[j].id
            /\ \A j \in S : (es[j].id = es[i].id) => i <= j

AvailableIdxs(es) == {i \in 1..Len(es) : is_available(es[i])}

EnabledIdxs(es) == {i \in 1..Len(es) : ~es[i].disabled}

AvailableInGroupIdxs(es, active) ==
    {i \in 1..Len(es) : is_available(es[i]) /\ in_group(es[i].credentials, active)}

IdOfIdx(es, i) == IF i = 0 THEN 0 ELSE es[i].id

\* the credentials written to the file: one object per entry, in list order
CredsOf(es) == [i \in 1..Len(es) |-> es[i].credentials]

\* ------------------------------------------------------------------------
\* State
\* ------------------------------------------------------------------------
VARIABLES
    entries,          \* Mutex<Vec<CredentialEntry>>
    current_id,       \* Mutex<u64>
    active_group_id,  \* Mutex<Option<String>>
    refresh_lock,     \* TokioMutex<()>: the task that holds it, or "free"
    disk,             \* content of the credentials file
    req,              \* per request task: position and locals of call_api_with_retry
    adm,              \* per admin task: position and locals of the running operation
    held,             \* acquire_context calls of the callers of the pool: id and position
    ops_left,         \* budget: admin operations that may still start
    expiries_left,    \* budget: token expirations that may still happen
    io_failures_left, \* budget: writes of the file that may still fail
    faults_left,      \* budget: answers other than success that may still come
    gateway           \* the servers: proxy-enabled flags, controller, one SSE stream

vars == <<entries, current_id, active_group_id, refresh_lock, disk, req, adm,
          held, ops_left, expiries_left, io_failures_left, faults_left, gateway>>

budgets == <<ops_left, expiries_left, io_failures_left, faults_left>>

\* a budget of -1 is unlimited
Unlimited == 0 - 1
CanSpend(b) == b # 0
Spend(b) == IF b > 0 THEN b - 1 ELSE b

pool == <<entries, current_id, active_group_id>>

\* ------------------------------------------------------------------------
\* Construction (MultiTokenManager::new)
\* ------------------------------------------------------------------------
MaxOfIds(creds) ==
    IF \A i \in 1..Len(creds) : creds[i].id = 0 THEN 0
    ELSE CHOOSE m \in {creds[i].id : i \in 1..Len(creds)} :
            \A i \in 1..Len(creds) : creds[i].id <= m

\* number of credentials without id before position i
MissingBefore(creds, i) == Cardinality({j \in 1..(i-1) : creds[j].id = 0})

\* the id of the i-th entry: its own, or the next one after the largest
AssignedId(creds, i) ==
    IF creds[i].id # 0 THEN creds[i].id
    ELSE MaxOfIds(creds) + 1 + MissingBefore(creds, i)

NewEntry(creds, i) ==
    [id |-> AssignedId(creds, i),
     credentials |-> [creds[i] EXCEPT !.id = AssignedId(creds, i)],
     failure_count |-> 0,
     disabled |-> creds[i].status = "invalid",
     disabled_reason |-> IF creds[i].status = "invalid" THEN "Suspended" ELSE NoReason]

NewEntries(creds) == [i \in 1..Len(creds) |-> NewEntry(creds, i)]

\* the position of the i-th credential of the file once the list is sorted
\* by priority (sort_by_key is stable)
SortedPos(creds, i) ==
    1 + Cardinality({j \in 1..Len(creds) :
                        \/ creds[j].priority < creds[i].priority
                        \/ creds[j].priority = creds[i].priority /\ j < i})

\* into_sorted_credentials as it would be with the largest priority first
into_sorted_credentials_descending(creds) ==
    [k \in 1..Len(creds) |->
        creds[CHOOSE i \in 1..Len(creds) : SortedPos(creds, i) = Len(creds) + 1 - k]]

\* into_sorted_credentials: the credentials of the file, smallest priority
\* first
into_sorted_credentials(creds) ==
    [k \in 1..Len(creds) |->
        creds[CHOOSE i \in 1..Len(creds) : SortedPos(creds, i) = k]]

\* the entries a starting process builds from the file
LoadEntries(file) == NewEntries(into_sorted_credentials(file))

HasDuplicateIds(es) == \E i, j \in 1..Len(es) : i < j /\ es[i].id = es[j].id

\* new() fails on duplicate ids
NewOk(creds) == ~HasDuplicateIds(NewEntries(creds))

InitialId(es) == IdOfIdx(es, MinByIdIdx(es, AvailableIdxs(es)))


\* ------------------------------------------------------------------------
\* Operations of MultiTokenManager on the pool, as functions of the state
\* they lock.  Each returns the fields it may change and its return value.
\* ------------------------------------------------------------------------

\* report_failure as it would be if the threshold were compared with > in
\* place of >=
report_failure_late_threshold(es, cur, id) ==
    LET i == FindIdx(es, id) IN
    IF i = 0
    THEN [entries |-> es, current_id |-> cur, ret |-> EnabledIdxs(es) # {}]
    ELSE LET es1 == [es EXCEPT ![i].failure_count = @ + 1] IN
         IF es1[i].failure_count > MAX_FAILURES_PER_CREDENTIAL
         THEN LET es2 == [es1 EXCEPT ![i].disabled = TRUE,
                                     ![i].disabled_reason = "TooManyFailures"]
                  n == MinByIdIdx(es2, AvailableIdxs(es2))
              IN  IF n # 0
                  THEN [entries |-> es2, current_id |-> es2[n].id,
                        ret |-> AvailableIdxs(es2) # {}]
                  ELSE [entries |-> es2, current_id |-> cur, ret |-> FALSE]
         ELSE [entries |-> es1, current_id |-> cur, ret |-> AvailableIdxs(es1) # {}]

\* report_failure: count the failure, disable at the threshold and move the
\* selection to the smallest available id
report_failure(es, cur, id) ==
    LET i == FindIdx(es, id) IN
    IF i = 0
    THEN [entries |-> es, current_id |-> cur, ret |-> EnabledIdxs(es) # {}]
    ELSE LET es1 == [es EXCEPT ![i].failure_count = @ + 1] IN
         IF es1[i].failure_count >= MAX_FAILURES_PER_CREDENTIAL
         THEN LET es2 == [es1 EXCEPT ![i].disabled = TRUE,
                                     ![i].disabled_reason = "TooManyFailures"]
                  n == MinByIdIdx(es2, AvailableIdxs(es2))
              IN  IF n # 0
                  THEN [entries |-> es2, current_id |-> es2[n].id,
                        ret |-> AvailableIdxs(es2) # {}]
                  ELSE [entries |-> es2, current_id |-> cur, ret |-> FALSE]
         ELSE [entries |-> es1, current_id |-> cur, ret |-> AvailableIdxs(es1) # {}]

\* report_success as it would be if it left the counter alone
report_success_keeping_count(es, id) == es

\* report_success: reset the failure counter
report_success(es, id) ==
    LET i == FindIdx(es, id) IN
    IF i = 0 THEN es ELSE [es EXCEPT ![i].failure_count = 0]

\* the marking as it would be if it counted a failure as well
MarkSuspendedCharged(es, id) ==
    LET i == FindIdx(es, id) IN
    IF i = 0 THEN es
    ELSE [es EXCEPT ![i].disabled = TRUE,
                    ![i].disabled_reason = "Suspended",
                    ![i].credentials.status = "invalid",
                    ![i].failure_count = @ + 1]

\* the three assignments that mark an entry suspended / invalid
MarkSuspended(es, id) ==
    LET i == FindIdx(es, id) IN
    IF i = 0 THEN es
    ELSE [es EXCEPT ![i].disabled = TRUE,
                    ![i].disabled_reason = "Suspended",
                    ![i].credentials.status = "invalid"]

\* report_failure_with_error (no caller in the retry engine)
report_failure_with_error(es, cur, id, msg) ==
    IF is_credential_invalid_error(msg)
    THEN LET es1 == MarkSuspended(es, id)
             n == MinByIdIdx(es1, AvailableIdxs(es1))
         IN  [entries |-> es1,
              current_id |-> IF FindIdx(es, id) # 0 /\ n # 0 THEN es1[n].id ELSE cur,
              ret |-> AvailableIdxs(es1) # {}]
    ELSE report_failure(es, cur, id)

\* set_disabled as it would be if enabling left the failure counter alone
set_disabled_keeping_count(es, id, disabled) ==
    LET i == FindIdx(es, id) IN
    IF disabled
    THEN [es EXCEPT ![i].disabled = TRUE, ![i].disabled_reason = "Manual"]
    ELSE [es EXCEPT ![i].disabled = FALSE, ![i].disabled_reason = NoReason]

\* set_disabled, the assignments under the entries lock
set_disabled(es, id, disabled) ==
    LET i == FindIdx(es, id) IN
    IF disabled
    THEN [es EXCEPT ![i].disabled = TRUE, ![i].disabled_reason = "Manual"]
    ELSE [es EXCEPT ![i].disabled = FALSE, ![i].failure_count = 0,
                    ![i].disabled_reason = NoReason]

\* reset_and_enable, the assignments under the entries lock
reset_and_enable(es, id) ==
    LET i == FindIdx(es, id) IN
    [es EXCEPT ![i].failure_count = 0,
               ![i].disabled = FALSE,
               ![i].disabled_reason = NoReason,
               ![i].credentials.status =
                   IF @ = "invalid" THEN "normal" ELSE @]

\* update_status
update_status(es, id, status) ==
    [es EXCEPT ![FindIdx(es, id)].credentials.status = status]

\* set_group
set_group(es, id, g) ==
    [es EXCEPT ![FindIdx(es, id)].credentials.group_id = g]

\* select_smallest_id_in_group as it would be if it left current_id alone when
\* no entry is available in the group
select_smallest_id_in_group_or_keep(es, cur, active) ==
    LET n == MinByIdIdx(es, AvailableInGroupIdxs(es, active)) IN
    IF n # 0 THEN es[n].id ELSE cur

\* select_smallest_id_in_group: the new current_id
select_smallest_id_in_group(es, cur, active) ==
    IdOfIdx(es, MinByIdIdx(es, AvailableInGroupIdxs(es, active)))

\* switch_to_next_by_id: the new current_id
switch_to_next_by_id(es, cur) ==
    LET n == MinByIdIdx(es, {i \in EnabledIdxs(es) : es[i].id # cur}) IN
    IF n # 0 THEN es[n].id ELSE cur

\* select_smallest_id: the new current_id
select_smallest_id(es, cur) ==
    LET n == MinByIdIdx(es, EnabledIdxs(es)) IN
    IF n # 0 THEN es[n].id ELSE cur

\* the available in-group entries in list order (indexes)
RECURSIVE AvailableSeq(_, _, _)
AvailableSeq(es, active, i) ==
    IF i > Len(es) THEN <<>>
    ELSE IF is_available(es[i]) /\ in_group(es[i].credentials, active)
         THEN <<i>> \o AvailableSeq(es, active, i + 1)
         ELSE AvailableSeq(es, active, i + 1)

\* switch_to_next as it would be if it gave up only when no entry at all is
\* available
switch_to_next_unless_none(es, cur, active) ==
    LET available == AvailableSeq(es, active, 1)
        n == Len(available)
        posS == {p \in 1..n : es[available[p]].id = cur}
        pos == IF posS = {} THEN 0
               ELSE CHOOSE p \in posS : \A q \in posS : p <= q
    IN  IF n = 0 THEN [current_id |-> cur, ret |-> FALSE]
        ELSE IF pos # 0
             THEN [current_id |-> es[available[(pos % n) + 1]].id, ret |-> TRUE]
             ELSE [current_id |-> es[available[1]].id, ret |-> TRUE]

\* switch_to_next: round robin over the available in-group entries
switch_to_next(es, cur, active) ==
    LET available == AvailableSeq(es, active, 1)
        n == Len(available)
        posS == {p \in 1..n : es[available[p]].id = cur}
        pos == IF posS = {} THEN 0
               ELSE CHOOSE p \in posS : \A q \in posS : p <= q
    IN  IF n <= 1 THEN [current_id |-> cur, ret |-> FALSE]
        ELSE IF pos # 0
             THEN [current_id |-> es[available[(pos % n) + 1]].id, ret |-> TRUE]
             ELSE [current_id |-> es[available[1]].id, ret |-> TRUE]

\* the self-heal as it would be if it re-enabled every disabled entry
self_heal_all(es) ==
    [i \in 1..Len(es) |->
        IF es[i].disabled
        THEN [es[i] EXCEPT !.disabled = FALSE, !.disabled_reason = NoReason,
                           !.failure_count = 0]
        ELSE es[i]]

\* the self-heal of acquire_context: re-enable the entries disabled for too
\* many failures
self_heal(es) ==
    [i \in 1..Len(es) |->
        IF es[i].disabled_reason = "TooManyFailures"
        THEN [es[i] EXCEPT !.disabled = FALSE, !.disabled_reason = NoReason,
                           !.failure_count = 0]
        ELSE es[i]]

\* the selection block as it would be if it never looked at current_id
acquire_select_smallest(es, cur, active) ==
    LET best == MinByIdIdx(es, AvailableInGroupIdxs(es, active))
        heal == /\ best = 0
                /\ \E i \in 1..Len(es) :
                      es[i].disabled /\ es[i].disabled_reason = "TooManyFailures"
        es1 == IF heal THEN self_heal(es) ELSE es
        best1 == IF heal THEN MinByIdIdx(es1, AvailableInGroupIdxs(es1, active))
                 ELSE best
    IN  [entries |-> es1, idx |-> best1,
         is_current |-> best1 # 0 /\ es1[best1].id = cur, healed |-> heal]

\* the selection block of acquire_context (one hold of the three mutexes):
\* the current entry when it is usable, else the smallest available id of the
\* group, after a self-heal when there is none.  idx = 0: no entry (bail).
acquire_select(es, cur, active) ==
    LET c == IF \E i \in 1..Len(es) :
                    /\ es[i].id = cur
                    /\ is_available(es[i])
                    /\ in_group(es[i].credentials, active)
             THEN CHOOSE i \in 1..Len(es) :
                    /\ es[i].id = cur /\ is_available(es[i])
                    /\ in_group(es[i].credentials, active)
                    /\ \A j \in 1..(i-1) :
                         ~(es[j].id = cur /\ is_available(es[j])
                           /\ in_group(es[j].credentials, active))
             ELSE 0
        best == MinByIdIdx(es, AvailableInGroupIdxs(es, active))
        heal == /\ best = 0
                /\ \E i \in 1..Len(es) :
                      es[i].disabled /\ es[i].disabled_reason = "TooManyFailures"
        es1 == IF heal THEN self_heal(es) ELSE es
        best1 == IF heal THEN MinByIdIdx(es1, AvailableInGroupIdxs(es1, active))
                 ELSE best
    IN  IF c # 0
        THEN [entries |-> es, idx |-> c, is_current |-> TRUE, healed |-> FALSE]
        ELSE [entries |-> es1, idx |-> best1, is_current |-> FALSE, healed |-> heal]


\* ------------------------------------------------------------------------
\* Initial states: the manager built by new() from a credentials file
\* ------------------------------------------------------------------------
TokenOfPos(i) == RefreshTokenSeq[i]

\* the access token every credential of a file holds
FileAccessToken == "at0"

\* the credentials a file may hold at position i (id 0: no id in the file)
FileCreds(i, ids, statuses, groups, expiries) ==
    [id : ids, status : statuses, group_id : groups,
     expires_at : expiries, refresh_token : {TokenOfPos(i)},
     access_token : {FileAccessToken}, priority : {0}]

\* the files of n credentials
FilesOfLen(n, ids, statuses, groups, expiries) ==
    {f \in [1..n -> UNION {FileCreds(i, ids, statuses, groups, expiries) : i \in 1..n}] :
        \A i \in 1..n : f[i] \in FileCreds(i, ids, statuses, groups, expiries)}

\* the files whose credentials carry the ids 1, 2, .. in this order
Numbered(files) == {f \in files : \A i \in 1..Len(f) : f[i].id = i}

\* the files of at most maxLen credentials
Files(maxLen, ids, statuses, groups, expiries) ==
    UNION {FilesOfLen(n, ids, statuses, groups, expiries) : n \in 0..maxLen}

NoCredentials == [id |-> 0, status |-> "normal", group_id |-> "default",
                  expires_at |-> "stale", refresh_token |-> "none",
                  access_token |-> "none", priority |-> 0]

ReqIdle == [pc |-> "idle", attempt |-> 0, max_retries |-> 0, total |-> 0,
            tried_count |-> 0, id |-> 0, credentials |-> NoCredentials,
            error_msg |-> {}, status |-> "none", result |-> "none",
            refresh_calls |-> 0, snapshot |-> <<>>]

AdmIdle == [pc |-> "idle", id |-> 0, disabled |-> FALSE, current_id |-> 0,
            group_id |-> NoGroup, credentials |-> NoCredentials, ret |-> "none",
            snapshot |-> <<>>, to_refresh |-> <<>>, total |-> 0,
            tried_count |-> 0]

\* an admin task after its operation returned: "Ok" for Ok(..), "Err" for
\* Err(..)
Returned(v) == [AdmIdle EXCEPT !.ret = v]

\* no streaming response
NoStream == [pc |-> "none", finished |-> FALSE, proxy_enabled |-> "none",
             events |-> <<>>]

\* ProxyServerController::new(): no shutdown sender (0), no task spawned
\* (tasks: the proxy server tasks spawned so far, in the order of their spawn)
NoServer == [shutdown_tx |-> 0, tasks |-> <<>>]

\* the three parking_lot mutexes of MultiTokenManager
Mutexes == {"entries", "current_id", "active_group_id"}

\* no task holds a mutex (gateway.mutex: the task that holds each one)
FreeMutexes == [m \in Mutexes |-> "free"]

\* no non-streaming response: no upstream body read, no message returned
\* (stop_reason: the stop_reason of the message returned for body)
NoNonStream == [body |-> <<>>, stop_reason |-> "none"]

\* the servers after start-up.  Single-port mode (run): one proxy-enabled flag,
\* true, shared by the Anthropic router and the admin state.  Dual-port mode
\* (run_dual_port_server): the admin state has its own flag, true when the
\* proxy was started at start-up, and each run_proxy_only_server creates the
\* flag of its router, true and never written (one name stands for all of
\* them).  flag: the value of each Arc<AtomicBool>; admin_flag, router_flag:
\* the Arc each state holds
NewGateway(mode, proxy_auto_start) ==
    [mode |-> mode,
     flag |-> [f \in {"admin", "router"} |->
                  IF f = "admin" /\ mode = "dual" THEN proxy_auto_start ELSE TRUE],
     admin_flag |-> "admin",
     router_flag |-> IF mode = "single" THEN "admin" ELSE "router",
     is_running |-> IF mode = "single" THEN TRUE ELSE proxy_auto_start,
     stream |-> NoStream,
     non_stream |-> NoNonStream,
     mutex |-> FreeMutexes,
     server |-> NoServer]

\* new(): entries from the file, the smallest available id selected, no
\* active group, the ids written back when some were assigned; rs and as are
\* the request and admin tasks of the run
InitFrom(creds, rs, as, ops, exps, ios, flts) ==
    /\ NewOk(creds)
    /\ entries = LoadEntries(creds)
    /\ current_id = InitialId(LoadEntries(creds))
    /\ active_group_id = NoGroup
    /\ refresh_lock = "free"
    /\ disk \in IF \E i \in 1..Len(creds) : creds[i].id = 0
                THEN {creds, CredsOf(LoadEntries(creds))}
                ELSE {creds}
    /\ req = [r \in rs |-> ReqIdle]
    /\ adm = [a \in as |-> AdmIdle]
    /\ held = {}
    /\ ops_left = ops
    /\ expiries_left = exps
    /\ io_failures_left = ios
    /\ faults_left = flts
    /\ gateway = NewGateway("single", TRUE)

\* ------------------------------------------------------------------------
\* persist_credentials: the file gets the credentials of all entries, or
\* keeps its content when the write fails
\* ------------------------------------------------------------------------
persist_credentials(es, old, io_ok) == IF io_ok THEN CredsOf(es) ELSE old

\* persist_credentials, the write alone: the file gets the credentials that
\* were collected
persist_credentials_write(credentials) == credentials

\* the outcomes of a write of the file
IoOutcomes == IF CanSpend(io_failures_left) THEN BOOLEAN ELSE {TRUE}

WriteFile(es, io_ok) ==
    /\ disk' = persist_credentials(es, disk, io_ok)
    /\ io_failures_left' = IF io_ok THEN io_failures_left ELSE Spend(io_failures_left)

\* ------------------------------------------------------------------------
\* The retry engine: KiroProvider::call_api_with_retry, one task per request
\* ------------------------------------------------------------------------
UpstreamOutcomes == {"2xx", "400", "429", "403 suspended", "500", "transport"}

\* the error text of an answer that is neither 2xx, 400 nor 429
BodyOf(outcome) ==
    IF outcome = "403 suspended"
    THEN {"403", "Forbidden", "TEMPORARILY_SUSPENDED"}
    ELSE {outcome}

\* error texts of a failed refresh: 401 (credential expired or invalid), 403
\* with a suspension body, 5xx / 429 / transport
RefreshErrors == {{"credential expired or invalid", "401", "Unauthorized"},
                  {"403", "Forbidden", "TEMPORARILY_SUSPENDED"},
                  {"500"}}

\* max_retries as it would be without the hard limit
max_retries_uncapped(total_credentials) ==
    total_credentials * MAX_RETRIES_PER_CREDENTIAL

\* max_retries of call_api_with_retry
max_retries(total_credentials) ==
    Min(total_credentials * MAX_RETRIES_PER_CREDENTIAL, MAX_TOTAL_RETRIES)

\* the next client request on the same task
Again(r) ==
    /\ req[r].pc = "done"
    /\ req' = [req EXCEPT ![r] = ReqIdle]
    /\ UNCHANGED <<held, pool, refresh_lock, disk, adm, ops_left, expiries_left, gateway,
                   io_failures_left, faults_left>>

\* the locals of one turn of the retry loop go out of scope; refresh_calls
\* counts the requests the turn's acquire_context has sent to the refresh
\* endpoint
EndAttempt(rq) ==
    [rq EXCEPT !.total = 0, !.tried_count = 0, !.id = 0,
               !.credentials = NoCredentials, !.error_msg = {},
               !.refresh_calls = 0]

\* continue: the next turn of the for loop
Continue(rq) == [EndAttempt(rq) EXCEPT !.pc = "for", !.attempt = @ + 1]

\* return from call_api_with_retry
Return(rq, result) == [EndAttempt(rq) EXCEPT !.pc = "done", !.result = result]

\* let total_credentials = total_count(); let max_retries = ...
Start(r) ==
    /\ req[r].pc = "idle"
    /\ req' = [req EXCEPT ![r].pc = "for",
                          ![r].attempt = 0,
                          ![r].max_retries = max_retries(Len(entries))]
    /\ UNCHANGED <<held, pool, refresh_lock, disk, adm, ops_left, expiries_left, gateway, io_failures_left, faults_left>>

\* for attempt in 0..max_retries: leave the loop with the last error, or
\* enter acquire_context (let total = self.total_count())
ForLoop(r) ==
    /\ req[r].pc = "for"
    /\ IF req[r].attempt >= req[r].max_retries
       THEN req' = [req EXCEPT ![r] = Return(@, "error")]
       ELSE req' = [req EXCEPT ![r].pc = "acquire",
                               ![r].status = "none",
                               ![r].total = Len(entries),
                               ![r].tried_count = 0]
    /\ UNCHANGED <<held, pool, refresh_lock, disk, adm, ops_left, expiries_left, gateway, io_failures_left, faults_left>>

\* acquire_context failed: last_error = Some(e); continue
AcquireFailed(rq) == Continue(rq)

\* acquire_context returned Ok(ctx) or goes for the refresh lock
AfterSelect(rq, e) ==
    [rq EXCEPT !.id = e.id,
               !.credentials = e.credentials,
               !.pc = IF needs_refresh(e.credentials) THEN "wait_lock" ELSE "send"]

\* one turn of the loop of acquire_context up to the end of its selection
\* block
AcquireSelect(r) ==
    /\ req[r].pc = "acquire"
    /\ IF req[r].tried_count >= req[r].total
       THEN /\ req' = [req EXCEPT ![r] = AcquireFailed(@)]
            /\ UNCHANGED entries
       ELSE LET s == acquire_select(entries, current_id, active_group_id) IN
            /\ entries' = s.entries
            /\ IF s.idx = 0
               THEN req' = [req EXCEPT ![r] = AcquireFailed(@)]
               ELSE IF s.is_current
                    THEN req' = [req EXCEPT ![r] = AfterSelect(@, s.entries[s.idx])]
                    ELSE req' = [req EXCEPT ![r].id = s.entries[s.idx].id,
                                            ![r].credentials = s.entries[s.idx].credentials,
                                            ![r].pc = "set_current"]
    /\ UNCHANGED <<held, current_id, active_group_id, refresh_lock, disk, adm,
                   ops_left, expiries_left, gateway, io_failures_left, faults_left>>

\* the else branch after the entries lock is dropped: *current_id = new_id
SetCurrent(r) ==
    /\ req[r].pc = "set_current"
    /\ current_id' = req[r].id
    /\ req' = [req EXCEPT ![r] = AfterSelect(@, [id |-> @.id, credentials |-> @.credentials])]
    /\ UNCHANGED <<held, entries, active_group_id, refresh_lock, disk, adm,
                   ops_left, expiries_left, gateway, io_failures_left, faults_left>>

\* try_ensure_token as it would be without the second check under the
\* refresh lock
LockAndRefresh(r) ==
    /\ req[r].pc = "wait_lock"
    /\ refresh_lock = "free"
    /\ LET i == FindIdx(entries, req[r].id) IN
       IF i = 0
       THEN /\ req' = [req EXCEPT ![r].pc = "switch", ![r].error_msg = {"not found"}]
            /\ UNCHANGED refresh_lock
       ELSE /\ req' = [req EXCEPT ![r].pc = "refreshing",
                                  ![r].refresh_calls = @ + 1,
                                  ![r].credentials = entries[i].credentials]
            /\ refresh_lock' = r
    /\ UNCHANGED <<held, pool, disk, adm, ops_left, expiries_left, gateway, io_failures_left, faults_left>>

\* try_ensure_token: the refresh lock is taken and the entry read again;
\* a missing entry is an error, a fresh token is returned without refresh,
\* else the request to the refresh endpoint is sent
LockAndRecheck(r) ==
    /\ req[r].pc = "wait_lock"
    /\ refresh_lock = "free"
    /\ LET i == FindIdx(entries, req[r].id) IN
       IF i = 0
       THEN /\ req' = [req EXCEPT ![r].pc = "switch", ![r].error_msg = {"not found"}]
            /\ UNCHANGED refresh_lock
       ELSE IF needs_refresh(entries[i].credentials)
            THEN /\ req' = [req EXCEPT ![r].pc = "refreshing",
                                       ![r].refresh_calls = @ + 1,
                                       ![r].credentials = entries[i].credentials]
                 /\ refresh_lock' = r
            ELSE /\ req' = [req EXCEPT ![r].pc = "send",
                                       ![r].credentials = entries[i].credentials]
                 /\ UNCHANGED refresh_lock
    /\ UNCHANGED <<held, pool, disk, adm, ops_left, expiries_left, gateway, io_failures_left, faults_left>>

\* refresh_token answered with an error: the refresh lock is released
RefreshFails(r) ==
    /\ req[r].pc = "refreshing"
    /\ CanSpend(faults_left)
    /\ faults_left' = Spend(faults_left)
    /\ \E msg \in RefreshErrors :
         req' = [req EXCEPT ![r].error_msg = msg,
                            ![r].pc = IF is_credential_invalid_error(msg)
                                      THEN "mark" ELSE "switch"]
    /\ refresh_lock' = "free"
    /\ UNCHANGED <<held, pool, disk, adm, ops_left, expiries_left, gateway, io_failures_left>>

\* the answers of the refresh endpoint: an access token, its expiry, and a
\* new refresh token or none ("none": the field is absent)
RefreshResponses(access_tokens, refresh_tokens, expiries) ==
    [access_token : access_tokens, refresh_token : refresh_tokens,
     expires_at : expiries]

\* refresh_social_token and refresh_idc_token after a 2xx answer: the
\* credentials sent, with the access token and the expiry of the answer and,
\* when the answer carries one, its refresh token
refresh_token(credentials, data) ==
    [credentials EXCEPT !.access_token = data.access_token,
                        !.refresh_token = IF data.refresh_token # "none"
                                          THEN data.refresh_token ELSE @,
                        !.expires_at = data.expires_at]

\* refresh_token answered with one of these responses: a token that is
\* still expired is an error; else the entry gets the new credentials, the
\* file is written and the context returned
RefreshSucceedsWithData(r, responses) ==
    /\ req[r].pc = "refreshing"
    /\ \E data \in responses, io_ok \in IoOutcomes :
         LET new_creds == refresh_token(req[r].credentials, data)
             i == FindIdx(entries, req[r].id)
         IN  IF is_token_expired(new_creds)
             THEN /\ CanSpend(faults_left)
                  /\ faults_left' = Spend(faults_left)
                  /\ req' = [req EXCEPT ![r].pc = "switch",
                                        ![r].error_msg = {"still expired"}]
                  /\ UNCHANGED <<entries, disk, io_failures_left>>
             ELSE /\ UNCHANGED faults_left
                  /\ entries' = IF i = 0 THEN entries
                                ELSE [entries EXCEPT ![i].credentials = new_creds]
                  /\ WriteFile(entries', io_ok)
                  /\ req' = [req EXCEPT ![r].pc = "send",
                                        ![r].credentials = new_creds]
    /\ refresh_lock' = "free"
    /\ UNCHANGED <<held, current_id, active_group_id, adm, ops_left, expiries_left, gateway>>

\* refresh_token answered with a token of one of these expiries, the access
\* token named as those of the file and the refresh token kept
RefreshSucceedsWith(r, expiries) ==
    RefreshSucceedsWithData(r, RefreshResponses({FileAccessToken}, {"none"}, expiries))

\* a refresh endpoint that answers with a token of any expiry
RefreshSucceeds(r) == RefreshSucceedsWith(r, {"stale", "soon", "valid"})

\* a refresh endpoint that answers with a token good for an hour
RefreshFresh(r) == RefreshSucceedsWith(r, {"valid"})

\* acquire_context after a credential-invalid refresh error: the entry is
\* disabled and the file written
MarkInvalid(r) ==
    /\ req[r].pc = "mark"
    /\ entries' = MarkSuspended(entries, req[r].id)
    /\ \E io_ok \in IoOutcomes : WriteFile(entries', io_ok)
    /\ req' = [req EXCEPT ![r].pc = "switch"]
    /\ UNCHANGED <<held, current_id, active_group_id, refresh_lock, adm, ops_left,
                   expiries_left, gateway, faults_left>>

\* acquire_context after any refresh error: switch_to_next_by_id();
\* tried_count += 1
SwitchNext(r) ==
    /\ req[r].pc = "switch"
    /\ current_id' = switch_to_next_by_id(entries, current_id)
    /\ req' = [req EXCEPT ![r].pc = "acquire", ![r].tried_count = @ + 1]
    /\ UNCHANGED <<held, entries, active_group_id, refresh_lock, disk, adm,
                   ops_left, expiries_left, gateway, io_failures_left, faults_left>>

\* the reaction as it would be if a 400 were charged to the credential like
\* any other error
handle_response_charging_400(es, cur, rq, outcome) ==
    LET rf == report_failure(es, cur, rq.id)
        sent == [rq EXCEPT !.status = outcome]
    IN  CASE outcome = "2xx" ->
               [entries |-> report_success(es, rq.id), current_id |-> cur,
                req |-> Return(sent, "ok")]
          [] outcome = "429" ->
               [entries |-> es, current_id |-> cur,
                req |-> Continue(sent)]
          [] OTHER ->
               [entries |-> rf.entries, current_id |-> rf.current_id,
                req |-> IF rf.ret
                        THEN Continue(sent)
                        ELSE Return(sent, "error")]

\* the reaction as it would be if a 429 were charged to the credential like
\* a server error
handle_response_charging_429(es, cur, rq, outcome) ==
    LET rf == report_failure(es, cur, rq.id)
        sent == [rq EXCEPT !.status = outcome]
    IN  CASE outcome = "2xx" ->
               [entries |-> report_success(es, rq.id), current_id |-> cur,
                req |-> Return(sent, "ok")]
          [] outcome = "400" ->
               [entries |-> es, current_id |-> cur,
                req |-> Return(sent, "error")]
          [] OTHER ->
               [entries |-> rf.entries, current_id |-> rf.current_id,
                req |-> IF rf.ret
                        THEN Continue(sent)
                        ELSE Return(sent, "error")]

\* the reaction of call_api_with_retry to the answer of the upstream
handle_response(es, cur, rq, outcome) ==
    LET rf == report_failure(es, cur, rq.id)
        sent == [rq EXCEPT !.status = outcome]
    IN  CASE outcome = "2xx" ->
               [entries |-> report_success(es, rq.id), current_id |-> cur,
                req |-> Return(sent, "ok")]
          [] outcome = "400" ->
               [entries |-> es, current_id |-> cur,
                req |-> Return(sent, "error")]
          [] outcome = "429" ->
               [entries |-> es, current_id |-> cur,
                req |-> Continue(sent)]
          [] OTHER ->
               [entries |-> rf.entries, current_id |-> rf.current_id,
                req |-> IF rf.ret
                        THEN Continue(sent)
                        ELSE Return(sent, "error")]

\* the request is sent with the context's token and the upstream answers
\* with one of these outcomes
RespondWith(r, outcomes) ==
    /\ req[r].pc = "send"
    /\ \E outcome \in outcomes :
         /\ outcome # "2xx" => CanSpend(faults_left)
         /\ faults_left' = IF outcome = "2xx" THEN faults_left ELSE Spend(faults_left)
         /\ outcome \in {"403 suspended", "500", "transport"} =>
               \A i \in 1..Len(entries) :
                   entries[i].id = req[r].id =>
                       entries[i].failure_count < MaxFailureCount
         /\ LET h == handle_response(entries, current_id, req[r], outcome) IN
            /\ entries' = h.entries
            /\ current_id' = h.current_id
            /\ req' = [req EXCEPT ![r] = h.req]
    /\ UNCHANGED <<held, active_group_id, refresh_lock, disk, adm, ops_left, expiries_left, gateway, io_failures_left>>

\* an upstream that answers at will
Respond(r) == RespondWith(r, UpstreamOutcomes)

\* an upstream that answers every request with a 500
RespondOutage(r) == RespondWith(r, {"500"})


\* ------------------------------------------------------------------------
\* Admin operations (AdminService and the handlers that call the manager)
\* ------------------------------------------------------------------------
Ids == 1..MaxEntries

AdmFree(a) == adm[a].pc = "idle" /\ CanSpend(ops_left)

\* AdminService::set_disabled, first the snapshot for current_id
SetDisabledBegin(a) ==
    /\ AdmFree(a)
    /\ \E id \in Ids, d \in BOOLEAN :
         adm' = [adm EXCEPT ![a].pc = "sd_set", ![a].id = id, ![a].disabled = d,
                            ![a].current_id = current_id, ![a].ret = "none"]
    /\ ops_left' = Spend(ops_left)
    /\ UNCHANGED <<held, pool, refresh_lock, disk, req, expiries_left, gateway, io_failures_left, faults_left>>

\* MultiTokenManager::set_disabled with its write of the file; an unknown id
\* or a failed write ends the operation with an error
SetDisabledSet(a) ==
    /\ adm[a].pc = "sd_set"
    /\ \E io_ok \in IoOutcomes :
         IF FindIdx(entries, adm[a].id) = 0
         THEN /\ adm' = [adm EXCEPT ![a] = Returned("Err")]
              /\ UNCHANGED <<entries, disk, io_failures_left>>
         ELSE /\ entries' = set_disabled(entries, adm[a].id, adm[a].disabled)
              /\ WriteFile(entries', io_ok)
              /\ adm' = IF ~io_ok
                        THEN [adm EXCEPT ![a] = Returned("Err")]
                        ELSE IF adm[a].disabled /\ adm[a].id = adm[a].current_id
                             THEN [adm EXCEPT ![a].pc = "sd_switch"]
                             ELSE [adm EXCEPT ![a] = Returned("Ok")]
    /\ UNCHANGED <<held, current_id, active_group_id, refresh_lock, req, ops_left,
                   expiries_left, gateway, faults_left>>

\* the disabled entry was the current one: switch_to_next()
SetDisabledSwitch(a) ==
    /\ adm[a].pc = "sd_switch"
    /\ current_id' = switch_to_next(entries, current_id, active_group_id).current_id
    /\ adm' = [adm EXCEPT ![a] = Returned("Ok")]
    /\ UNCHANGED <<held, entries, active_group_id, refresh_lock, disk, req, ops_left,
                   expiries_left, gateway, io_failures_left, faults_left>>

\* AdminService::set_disabled as it would be if it moved the selection on
\* every disabling, whichever entry is disabled
admin_set_disabled_always_switching(es, cur, active, id, disabled) ==
    IF FindIdx(es, id) = 0
    THEN [entries |-> es, current_id |-> cur]
    ELSE LET es1 == set_disabled(es, id, disabled) IN
         [entries |-> es1,
          current_id |-> IF disabled
                         THEN switch_to_next(es1, cur, active).current_id
                         ELSE cur]

\* AdminService::set_disabled run from its first line to its last with no
\* other task in between and the file written: the pool it leaves
admin_set_disabled(es, cur, active, id, disabled) ==
    IF FindIdx(es, id) = 0
    THEN [entries |-> es, current_id |-> cur]
    ELSE LET es1 == set_disabled(es, id, disabled) IN
         [entries |-> es1,
          current_id |-> IF disabled /\ id = cur
                         THEN switch_to_next(es1, cur, active).current_id
                         ELSE cur]

\* reset_and_enable
ResetAndEnable(a) ==
    /\ AdmFree(a)
    /\ \E id \in Ids, io_ok \in IoOutcomes :
         /\ FindIdx(entries, id) # 0
         /\ entries' = reset_and_enable(entries, id)
         /\ WriteFile(entries', io_ok)
         /\ adm' = [adm EXCEPT ![a] = Returned(IF io_ok THEN "Ok" ELSE "Err")]
    /\ ops_left' = Spend(ops_left)
    /\ UNCHANGED <<held, current_id, active_group_id, refresh_lock, req, expiries_left, gateway, faults_left>>

\* update_status (it has no caller in the program and is part of no
\* specification below)
UpdateStatus(a) ==
    /\ AdmFree(a)
    /\ \E id \in Ids, st \in Statuses, io_ok \in IoOutcomes :
         /\ FindIdx(entries, id) # 0
         /\ entries' = update_status(entries, id, st)
         /\ WriteFile(entries', io_ok)
         /\ adm' = [adm EXCEPT ![a] = Returned(IF io_ok THEN "Ok" ELSE "Err")]
    /\ ops_left' = Spend(ops_left)
    /\ UNCHANGED <<held, current_id, active_group_id, refresh_lock, req, expiries_left, gateway, faults_left>>

\* set_group
SetGroup(a) ==
    /\ AdmFree(a)
    /\ \E id \in Ids, g \in Groups, io_ok \in IoOutcomes :
         /\ FindIdx(entries, id) # 0
         /\ entries' = set_group(entries, id, g)
         /\ WriteFile(entries', io_ok)
         /\ adm' = [adm EXCEPT ![a] = Returned(IF io_ok THEN "Ok" ELSE "Err")]
    /\ ops_left' = Spend(ops_left)
    /\ UNCHANGED <<held, current_id, active_group_id, refresh_lock, req, expiries_left, gateway, faults_left>>

\* set_active_group, first the assignment of the group
SetActiveGroupBegin(a) ==
    /\ AdmFree(a)
    /\ \E g \in Groups \cup {NoGroup} : active_group_id' = g
    /\ adm' = [adm EXCEPT ![a].pc = "sag_select", ![a].ret = "none"]
    /\ ops_left' = Spend(ops_left)
    /\ UNCHANGED <<held, entries, current_id, refresh_lock, disk, req, expiries_left, gateway, io_failures_left, faults_left>>

\* then, the lock released and taken again: select_smallest_id_in_group()
SetActiveGroupSelect(a) ==
    /\ adm[a].pc = "sag_select"
    /\ current_id' = select_smallest_id_in_group(entries, current_id, active_group_id)
    /\ adm' = [adm EXCEPT ![a] = Returned("Ok")]
    /\ UNCHANGED <<held, entries, active_group_id, refresh_lock, disk, req, ops_left,
                   expiries_left, gateway, io_failures_left, faults_left>>

\* refresh_credential_selection: select_smallest_id_in_group()
RefreshSelection(a) ==
    /\ AdmFree(a)
    /\ current_id' = select_smallest_id_in_group(entries, current_id, active_group_id)
    /\ adm' = [adm EXCEPT ![a] = Returned("Ok")]
    /\ ops_left' = Spend(ops_left)
    /\ UNCHANGED <<held, entries, active_group_id, refresh_lock, disk, req,
                   expiries_left, gateway, io_failures_left, faults_left>>

\* entries.retain(|e| e.id != id)
retain_other_ids(es, id) == SelectSeq(es, LAMBDA e : e.id # id)

\* delete_credential, first block: the entry is removed
DeleteBegin(a) ==
    /\ AdmFree(a)
    /\ \E id \in Ids :
         /\ FindIdx(entries, id) # 0
         /\ entries' = retain_other_ids(entries, id)
         /\ adm' = [adm EXCEPT ![a].pc = IF current_id = id THEN "del_select"
                                         ELSE "del_empty",
                               ![a].id = id, ![a].ret = "none"]
    /\ ops_left' = Spend(ops_left)
    /\ UNCHANGED <<held, current_id, active_group_id, refresh_lock, disk, req, expiries_left, gateway, io_failures_left, faults_left>>

\* it was the current one: select_smallest_id()
DeleteSelect(a) ==
    /\ adm[a].pc = "del_select"
    /\ current_id' = select_smallest_id(entries, current_id)
    /\ adm' = [adm EXCEPT ![a].pc = "del_empty"]
    /\ UNCHANGED <<held, entries, active_group_id, refresh_lock, disk, req, ops_left,
                   expiries_left, gateway, io_failures_left, faults_left>>

\* last block: current_id = 0 when the pool is empty; then the file is written
DeleteFinish(a) ==
    /\ adm[a].pc = "del_empty"
    /\ current_id' = IF Len(entries) = 0 THEN 0 ELSE current_id
    /\ \E io_ok \in IoOutcomes :
         /\ WriteFile(entries, io_ok)
         /\ adm' = [adm EXCEPT ![a] = Returned(IF io_ok THEN "Ok" ELSE "Err")]
    /\ UNCHANGED <<held, entries, active_group_id, refresh_lock, req, ops_left, expiries_left, gateway, faults_left>>

\* ------------------------------------------------------------------------
\* add_credential
\* ------------------------------------------------------------------------
\* the refresh tokens an admin may submit: the token of the first credential of
\* the file, two tokens no file holds, no token at all ("none" stands for the
\* absent field), the empty one, one of 99 characters, one of full length
\* that holds "...", and "rtD+", which differs from "rtD" after its 50th
\* character only
AddTokens == {TokenOfPos(1), "rtD", "rtE", "none", "", "short", "rtD...", "rtD+"}

\* refresh_token.chars().take(50).collect()
Prefix50(tok) == IF tok = "rtD+" THEN "rtD" ELSE tok

\* refresh_token.len(): 0 for the empty token, 99 for the short one, and 100
\* or more, counted as 100, for every other token
TokenLen(tok) == IF tok = "" THEN 0 ELSE IF tok = "short" THEN 99 ELSE 100

\* refresh_token.contains("...")
ContainsEllipsis(tok) == tok = "rtD..."

\* validate_refresh_token as it would be without the test for "..."
validate_refresh_token_by_length(c) ==
    /\ c.refresh_token # "none"
    /\ c.refresh_token # ""
    /\ ~(TokenLen(c.refresh_token) < 100)

\* validate_refresh_token: Ok(()) for a token that is present, not empty, of
\* 100 characters at least and without "..."
validate_refresh_token(c) ==
    /\ c.refresh_token # "none"
    /\ c.refresh_token # ""
    /\ ~(TokenLen(c.refresh_token) < 100 \/ ContainsEllipsis(c.refresh_token))

\* the duplicate check of add_credential (first 50 characters of the tokens)
IsDuplicate(es, c) ==
    \E i \in 1..Len(es) :
        /\ es[i].credentials.refresh_token # "none"
        /\ Prefix50(es[i].credentials.refresh_token) = Prefix50(c.refresh_token)

\* the id an add would assign if it counted on from the largest id in use
NextIdAfterLargest(es) ==
    IF Len(es) = 0 THEN 1
    ELSE (CHOOSE m \in {es[i].id : i \in 1..Len(es)} :
              \A i \in 1..Len(es) : es[i].id <= m) + 1

\* the smallest id from 1 on that no entry uses
SmallestUnusedId(es) ==
    CHOOSE id \in 1..(Len(es) + 1) :
        /\ \A i \in 1..Len(es) : es[i].id # id
        /\ \A k \in 1..(id - 1) : \E i \in 1..Len(es) : es[i].id = k

\* steps 1 and 2: validation and the duplicate check under the entries lock;
\* then the refresh request is sent
AddBegin(a) ==
    /\ AdmFree(a)
    /\ Len(entries) < MaxPool
    /\ \E tok \in AddTokens :
         LET new_cred == [id |-> 0, status |-> "normal", group_id |-> "default",
                          expires_at |-> "stale", refresh_token |-> tok,
                          access_token |-> "none", priority |-> 0]
         IN  IF validate_refresh_token(new_cred) /\ ~IsDuplicate(entries, new_cred)
             THEN adm' = [adm EXCEPT ![a].pc = "add_refresh",
                                     ![a].credentials = new_cred,
                                     ![a].ret = "none"]
             ELSE adm' = [adm EXCEPT ![a] = Returned("Err")]
    /\ ops_left' = Spend(ops_left)
    /\ UNCHANGED <<held, pool, refresh_lock, disk, req, expiries_left, gateway,
                   io_failures_left, faults_left>>

\* step 3, the refresh endpoint rejects the token: add_credential fails
AddRefreshFails(a) ==
    /\ adm[a].pc = "add_refresh"
    /\ CanSpend(faults_left)
    /\ faults_left' = Spend(faults_left)
    /\ adm' = [adm EXCEPT ![a] = Returned("Err")]
    /\ UNCHANGED <<held, pool, refresh_lock, disk, req, ops_left, expiries_left, gateway,
                   io_failures_left>>

\* steps 3 and 4, the refresh endpoint answers with a token: the new id is
\* computed under the entries lock
AddAssignId(a) ==
    /\ adm[a].pc = "add_refresh"
    /\ adm' = [adm EXCEPT ![a].pc = "add_push",
                          ![a].id = SmallestUnusedId(entries),
                          ![a].credentials =
                              [@ EXCEPT !.id = SmallestUnusedId(entries),
                                        !.expires_at = "valid",
                                        !.access_token = FileAccessToken]]
    /\ UNCHANGED <<held, pool, refresh_lock, disk, req, ops_left, expiries_left, gateway,
                   io_failures_left, faults_left>>

\* entries.push(CredentialEntry { .. }) of add_credential
push_entry(es, new_id, validated_cred) ==
    Append(es, [id |-> new_id,
                credentials |-> validated_cred,
                failure_count |-> 0,
                disabled |-> FALSE,
                disabled_reason |-> NoReason])

\* steps 5 and 6: the entry is pushed under the entries lock, taken again,
\* and the file written; a failed write is an error of add_credential
AddPush(a) ==
    /\ adm[a].pc = "add_push"
    /\ entries' = push_entry(entries, adm[a].id, adm[a].credentials)
    /\ \E io_ok \in IoOutcomes :
         /\ WriteFile(entries', io_ok)
         /\ adm' = IF io_ok THEN [adm EXCEPT ![a].pc = "add_usage"]
                   ELSE [adm EXCEPT ![a] = Returned("Err")]
    /\ UNCHANGED <<held, current_id, active_group_id, refresh_lock, req, ops_left,
                   expiries_left, gateway, faults_left>>

\* step 7, get_usage_limits_for(new_id) on the fresh token: the usage is
\* stored and the file written, or the entry is suspended on a
\* credential-invalid answer, or nothing happens on another error
AddUsage(a) ==
    /\ adm[a].pc = "add_usage"
    /\ \E answer \in {"usage", "403 suspended", "500"}, io_ok \in IoOutcomes :
         /\ answer # "usage" => CanSpend(faults_left)
         /\ faults_left' = IF answer = "usage" THEN faults_left
                           ELSE Spend(faults_left)
         /\ entries' = IF is_credential_invalid_error(BodyOf(answer))
                       THEN MarkSuspended(entries, adm[a].id)
                       ELSE entries
         /\ IF answer = "500" \/ FindIdx(entries, adm[a].id) = 0
            THEN UNCHANGED <<disk, io_failures_left>>
            ELSE WriteFile(entries', io_ok)
    /\ adm' = [adm EXCEPT ![a] = Returned("Ok")]
    /\ UNCHANGED <<held, current_id, active_group_id, refresh_lock, req, ops_left,
                   expiries_left, gateway>>

AddStep(a) ==
    \/ AddBegin(a)
    \/ AddRefreshFails(a)
    \/ AddAssignId(a)
    \/ AddPush(a)
    \/ AddUsage(a)

\* ------------------------------------------------------------------------
\* Time: the token of an entry comes within 10 minutes of its expiry
\* ------------------------------------------------------------------------
TokenExpires ==
    /\ CanSpend(expiries_left)
    /\ \E i \in 1..Len(entries) :
         /\ entries[i].credentials.expires_at = "valid"
         /\ entries' = [entries EXCEPT ![i].credentials.expires_at = "soon"]
         /\ disk' = [k \in 1..Len(disk) |->
                        IF disk[k].refresh_token = entries[i].credentials.refresh_token
                           /\ disk[k].expires_at = "valid"
                        THEN [disk[k] EXCEPT !.expires_at = "soon"]
                        ELSE disk[k]]
    /\ expiries_left' = Spend(expiries_left)
    /\ UNCHANGED <<held, current_id, active_group_id, refresh_lock, req, adm,
                   ops_left, io_failures_left, faults_left, gateway>>

\* ------------------------------------------------------------------------
\* The pool seen by its callers: any number of requests in flight, each one
\* an acquire_context and, later, a report for the id of its context
\* ------------------------------------------------------------------------

\* acquire_context, the selection block: a context for the current entry, or
\* an entry selected whose id is still to be written to current_id
PoolAcquire ==
    /\ Len(entries) > 0
    /\ LET s == acquire_select(entries, current_id, active_group_id) IN
       /\ entries' = s.entries
       /\ IF s.idx = 0
          THEN UNCHANGED held
          ELSE /\ ~needs_refresh(s.entries[s.idx].credentials)
               /\ held' = held \cup
                     {[id |-> s.entries[s.idx].id,
                       pc |-> IF s.is_current THEN "send" ELSE "set_current"]}
    /\ UNCHANGED <<current_id, active_group_id, refresh_lock, disk, req, adm,
                   ops_left, expiries_left, gateway, io_failures_left, faults_left>>

\* acquire_context, *current_id = new_id; the token is fresh and the context
\* returned
PoolSetCurrent ==
    /\ \E h \in held :
         /\ h.pc = "set_current"
         /\ current_id' = h.id
         /\ held' = (held \ {h}) \cup {[id |-> h.id, pc |-> "send"]}
    /\ UNCHANGED <<entries, active_group_id, refresh_lock, disk, req, adm,
                   ops_left, expiries_left, gateway, io_failures_left, faults_left>>

\* report_failure(ctx.id)
PoolReportFailure ==
    /\ \E h \in held :
         /\ h.pc = "send"
         /\ \A i \in 1..Len(entries) :
               entries[i].id = h.id => entries[i].failure_count < MaxFailureCount
         /\ LET rf == report_failure(entries, current_id, h.id) IN
            /\ entries' = rf.entries
            /\ current_id' = rf.current_id
    /\ UNCHANGED <<active_group_id, refresh_lock, disk, req, adm, held, ops_left,
                   expiries_left, gateway, io_failures_left, faults_left>>

\* report_success(ctx.id)
PoolReportSuccess ==
    /\ \E h \in held :
         /\ h.pc = "send"
         /\ entries' = report_success(entries, h.id)
    /\ UNCHANGED <<current_id, active_group_id, refresh_lock, disk, req, adm,
                   held, ops_left, expiries_left, gateway, io_failures_left, faults_left>>

\* ------------------------------------------------------------------------
\* Specification
\* ------------------------------------------------------------------------
RequestStep(r) ==
    \/ Start(r)
    \/ ForLoop(r)
    \/ AcquireSelect(r)
    \/ SetCurrent(r)
    \/ LockAndRecheck(r)
    \/ RefreshFails(r)
    \/ RefreshSucceeds(r)
    \/ MarkInvalid(r)
    \/ SwitchNext(r)
    \/ Respond(r)

AdminStep(a) ==
    \/ SetDisabledBegin(a)
    \/ SetDisabledSet(a)
    \/ SetDisabledSwitch(a)
    \/ ResetAndEnable(a)
    \/ SetGroup(a)
    \/ SetActiveGroupBegin(a)
    \/ SetActiveGroupSelect(a)
    \/ RefreshSelection(a)
    \/ DeleteBegin(a)
    \/ DeleteSelect(a)
    \/ DeleteFinish(a)

\* one request and one admin task over a pool of ids 1, 2, .. loaded from a
\* file
Init == \E creds \in Numbered(Files(MaxEntries, 1..MaxEntries, Statuses, Groups, {"stale", "valid"})) :
            /\ Len(creds) > 0
            /\ InitFrom(creds, {"r1"}, {"a1"}, MaxAdminOps, MaxExpiries,
                        MaxIoFailures, MaxFaults)

Next ==
    \/ \E r \in DOMAIN req : RequestStep(r)
    \/ \E a \in DOMAIN adm : AdminStep(a)
    \/ TokenExpires

Spec == Init /\ [][Next]_vars


\* ------------------------------------------------------------------------
\* The pool under its callers and the admin operations, without budget
\* ------------------------------------------------------------------------
InitPool == \E creds \in Numbered(Files(MaxEntries, 1..MaxEntries, Statuses, Groups, {"valid"})) :
                InitFrom(creds, {}, {"a1"}, Unlimited, 0, 0, 0)

NextPool ==
    \/ PoolAcquire
    \/ PoolSetCurrent
    \/ PoolReportFailure
    \/ PoolReportSuccess
    \/ \E a \in DOMAIN adm : AdminStep(a)

SpecPool == InitPool /\ [][NextPool]_vars


\* ------------------------------------------------------------------------
\* The retry engine alone: one task serving one client request after the
\* other over a pool nobody administers, the upstream answering at will
\* ------------------------------------------------------------------------
\* n credentials with the ids 1..n, all normal, in the default group
UniformFile(n, exp) ==
    [i \in 1..n |-> [id |-> i, status |-> "normal", group_id |-> "default",
                     expires_at |-> exp, refresh_token |-> TokenOfPos(i),
                     access_token |-> FileAccessToken, priority |-> 0]]

InitRetry ==
    \E n \in 0..MaxPool, exp \in {"stale", "valid"} :
        /\ exp = "stale" => n <= MaxEntries
        /\ InitFrom(UniformFile(n, exp), {"r1"}, {}, 0, 0, 0, Unlimited)

NextRetry == \E r \in DOMAIN req : RequestStep(r) \/ Again(r)

SpecRetry == InitRetry /\ [][NextRetry]_vars

\* every step of a request is taken eventually: the runtime schedules the
\* task and every HTTP call ends, by an answer or by the client's timeout
SpecRetryFair == SpecRetry /\ WF_vars(RequestStep("r1"))

\* ------------------------------------------------------------------------
\* The retry engine while the upstream is down: every answer is a 500; the
\* tokens of the pool are fresh, so no request refreshes one
\* ------------------------------------------------------------------------
InitOutage ==
    \E n \in 0..MaxPool :
        InitFrom(UniformFile(n, "valid"), {"r1"}, {}, 0, 0, 0, Unlimited)

NextOutage ==
    \E r \in DOMAIN req :
        \/ Start(r)
        \/ ForLoop(r)
        \/ AcquireSelect(r)
        \/ SetCurrent(r)
        \/ RespondOutage(r)
        \/ Again(r)

SpecOutage == InitOutage /\ [][NextOutage]_vars

SpecOutageFair ==
    /\ SpecOutage
    /\ WF_vars(Start("r1") \/ ForLoop("r1") \/ AcquireSelect("r1")
                \/ SetCurrent("r1") \/ RespondOutage("r1"))

\* ------------------------------------------------------------------------
\* The retry engine over pools of one credential more than the other
\* specifications load, healthy credentials of the default group, some with
\* an expired token and some with a fresh one
\* ------------------------------------------------------------------------
InitFailover ==
    \E creds \in Numbered(FilesOfLen(MaxEntries + 1, 1..(MaxEntries + 1), {"normal"},
                                     {"default"}, {"stale", "valid"})) :
        InitFrom(creds, {"r1"}, {}, 0, 0, 0, Unlimited)

SpecFailover == InitFailover /\ [][NextRetry]_vars

\* ------------------------------------------------------------------------
\* Two requests arrive together over a pool whose tokens have all expired;
\* the refresh endpoint answers every request with a token good for an hour.
\* Each request is followed up to the return of its acquire_context.
\* ------------------------------------------------------------------------
InitRace ==
    \E creds \in Numbered(Files(MaxEntries, 1..MaxEntries, Statuses, Groups, {"stale"})) :
        /\ Len(creds) > 0
        /\ InitFrom(creds, {"r1", "r2"}, {}, 0, 0, 0, 0)

NextRace ==
    \E r \in DOMAIN req :
        \/ Start(r)
        \/ ForLoop(r)
        \/ AcquireSelect(r)
        \/ LockAndRecheck(r)
        \/ RefreshFresh(r)

SpecRace == InitRace /\ [][NextRace]_vars

\* ------------------------------------------------------------------------
\* An admin task that disables and enables credentials, over pools of one
\* credential more than the other specifications load
\* ------------------------------------------------------------------------
InitToggle ==
    \E creds \in Numbered(FilesOfLen(MaxEntries + 1, 1..(MaxEntries + 1), Statuses,
                                     Groups, {"valid"})) :
        InitFrom(creds, {}, {"a1"}, Unlimited, 0, 0, 0)

NextToggle ==
    \E a \in DOMAIN adm :
        \/ SetDisabledBegin(a)
        \/ SetDisabledSet(a)
        \/ SetDisabledSwitch(a)

SpecToggle == InitToggle /\ [][NextToggle]_vars

\* ------------------------------------------------------------------------
\* The admin operations alone, one call after another
\* ------------------------------------------------------------------------
NextAdmin == \E a \in DOMAIN adm : AdminStep(a)

SpecAdmin == InitPool /\ [][NextAdmin]_vars

\* ------------------------------------------------------------------------
\* switch_to_next called on its own, as its unit test calls it, on pools of
\* one credential more than the other specifications load, between calls
\* of set_disabled and set_active_group
\* ------------------------------------------------------------------------
SwitchToNext(a) ==
    /\ AdmFree(a)
    /\ LET sw == switch_to_next(entries, current_id, active_group_id) IN
       /\ current_id' = sw.current_id
       /\ adm' = [adm EXCEPT ![a] = Returned(IF sw.ret THEN "true" ELSE "false")]
    /\ ops_left' = Spend(ops_left)
    /\ UNCHANGED <<held, entries, active_group_id, refresh_lock, disk, req,
                   expiries_left, gateway, io_failures_left, faults_left>>

NextSwitch ==
    \E a \in DOMAIN adm :
        \/ SwitchToNext(a)
        \/ SetDisabledBegin(a)
        \/ SetDisabledSet(a)
        \/ SetDisabledSwitch(a)
        \/ SetActiveGroupBegin(a)
        \/ SetActiveGroupSelect(a)

SpecSwitch == InitToggle /\ [][NextSwitch]_vars

\* ------------------------------------------------------------------------
\* The proxy switch and a streaming response (create_sse_stream): one client
\* stream, and an admin who enables and disables the proxy
\* ------------------------------------------------------------------------
pool_and_tasks == <<entries, current_id, active_group_id, refresh_lock, disk, req,
                    adm, held, ops_left, expiries_left, io_failures_left,
                    faults_left>>

\* the SSE error event of a disabled proxy
ServiceUnavailable == "error service_unavailable"

\* proxy_enabled.load(Ordering::SeqCst) of the stream
StreamFlag == gateway.flag[gateway.stream.proxy_enabled]

Emit(event, finished) ==
    gateway' = [gateway EXCEPT !.stream.events = Append(@, event),
                               !.stream.finished = finished,
                               !.stream.pc = "top"]

\* a streaming request is accepted while the server listens: the handler
\* clones the flag of its router and the initial events are sent
StreamStart ==
    /\ gateway.stream.pc = "none"
    /\ gateway.is_running
    /\ gateway' = [gateway EXCEPT !.stream = [pc |-> "top", finished |-> FALSE,
                                              proxy_enabled |-> gateway.router_flag,
                                              events |-> <<"message_start">>]]
    /\ UNCHANGED pool_and_tasks

\* the turn of the unfold closure as it would be without its first check:
\* a finished stream goes on to the flag and to the select
StreamTopWithoutFinished ==
    /\ gateway.stream.pc = "top"
    /\ IF ~StreamFlag
       THEN Emit(ServiceUnavailable, TRUE)
       ELSE gateway' = [gateway EXCEPT !.stream.pc = "select"]
    /\ UNCHANGED pool_and_tasks

\* one turn of the unfold closure, up to the select: the stream ends when it
\* is finished, the error event is emitted when the flag is false, else the
\* turn goes on to the select
StreamTop ==
    /\ gateway.stream.pc = "top"
    /\ IF gateway.stream.finished
       THEN gateway' = [gateway EXCEPT !.stream.pc = "closed"]
       ELSE IF ~StreamFlag
            THEN Emit(ServiceUnavailable, TRUE)
            ELSE gateway' = [gateway EXCEPT !.stream.pc = "select"]
    /\ UNCHANGED pool_and_tasks

\* select, a chunk of the upstream: its events are emitted
StreamChunk ==
    /\ gateway.stream.pc = "select"
    /\ Len(gateway.stream.events) < MaxStreamEvents
    /\ Emit("content", FALSE)
    /\ UNCHANGED pool_and_tasks

\* select, the upstream ends or fails: the final events are emitted
StreamEnd ==
    /\ gateway.stream.pc = "select"
    /\ Emit("message_stop", TRUE)
    /\ UNCHANGED pool_and_tasks

\* select, the ping timer
StreamPing ==
    /\ gateway.stream.pc = "select"
    /\ Len(gateway.stream.events) < MaxStreamEvents
    /\ Emit("ping", FALSE)
    /\ UNCHANGED pool_and_tasks

\* select, the sleep of 500 ms: the flag is read again
StreamSample ==
    /\ gateway.stream.pc = "select"
    /\ IF ~StreamFlag
       THEN Emit(ServiceUnavailable, TRUE)
       ELSE gateway' = [gateway EXCEPT !.stream.pc = "top"]
    /\ UNCHANGED pool_and_tasks

\* the client sends its next streaming request
StreamAgain ==
    /\ gateway.stream.pc = "closed"
    /\ gateway' = [gateway EXCEPT !.stream = NoStream]
    /\ UNCHANGED pool_and_tasks

\* POST /api/admin/proxy/enabled.  Dual-port mode: the controller starts a
\* proxy server (the port is free) or sends the shutdown signal to the one
\* that runs, which stops accepting connections and lets the open ones
\* finish; the flag of the admin state follows.  Single-port mode: the
\* shared flag is stored
SetProxyEnabled(enabled) ==
    /\ IF gateway.mode = "dual"
       THEN IF enabled /\ ~gateway.is_running
            THEN /\ gateway' = [gateway EXCEPT !.is_running = TRUE,
                                               !.flag[gateway.admin_flag] = TRUE]
                 /\ current_id' = select_smallest_id_in_group(entries, current_id,
                                                              active_group_id)
            ELSE IF ~enabled /\ gateway.is_running
                 THEN /\ gateway' = [gateway EXCEPT !.is_running = FALSE,
                                                    !.flag[gateway.admin_flag] = FALSE]
                      /\ UNCHANGED current_id
                 ELSE UNCHANGED <<gateway, current_id>>
       ELSE /\ gateway' = [gateway EXCEPT !.flag[gateway.admin_flag] = enabled]
            /\ UNCHANGED current_id
    /\ UNCHANGED <<entries, active_group_id, refresh_lock, disk, req, adm, held,
                   ops_left, expiries_left, io_failures_left, faults_left>>

InitStream ==
    \E creds \in Numbered(Files(MaxEntries, 1..MaxEntries, {"normal"}, Groups,
                                {"valid"})),
       mode \in {"single", "dual"}, proxy_auto_start \in BOOLEAN :
        /\ entries = LoadEntries(creds)
        /\ current_id = InitialId(LoadEntries(creds))
        /\ active_group_id = NoGroup
        /\ refresh_lock = "free"
        /\ disk = creds
        /\ req = [r \in {} |-> ReqIdle]
        /\ adm = [a \in {} |-> AdmIdle]
        /\ held = {}
        /\ ops_left = 0
        /\ expiries_left = 0
        /\ io_failures_left = 0
        /\ faults_left = 0
        /\ gateway = NewGateway(mode, proxy_auto_start)

NextStream ==
    \/ StreamStart
    \/ StreamTop
    \/ StreamChunk
    \/ StreamEnd
    \/ StreamPing
    \/ StreamSample
    \/ StreamAgain
    \/ \E enabled \in BOOLEAN : SetProxyEnabled(enabled)

SpecStream == InitStream /\ [][NextStream]_vars

\* ------------------------------------------------------------------------
\* The non-streaming response: the whole upstream body is decoded, and one
\* JSON message is returned
\* ------------------------------------------------------------------------

\* what decode_iter and Event::from_frame make of a frame: the four events
\* the handler matches, an exception of another type, an event of another
\* kind, and a frame that cannot be decoded
Frames == {"AssistantResponse", "ToolUse", "ContextUsage",
           "Exception ContentLengthExceededException",
           "Exception ThrottlingException", "Other", "undecodable"}

\* the for loop over decoder.decode_iter(): has_tool_use and stop_reason
\* after the frames of body, from the values acc before them
RECURSIVE decode_events(_, _)
decode_events(body, acc) ==
    IF body = <<>> THEN acc
    ELSE decode_events(Tail(body),
             CASE Head(body) = "ToolUse" -> [acc EXCEPT !.has_tool_use = TRUE]
               [] Head(body) = "Exception ContentLengthExceededException" ->
                      [acc EXCEPT !.stop_reason = "max_tokens"]
               [] OTHER -> acc)

\* stop_reason of the JSON message: the loop from has_tool_use = false and
\* stop_reason = "end_turn", then "tool_use" when a tool was used and the
\* reason is still "end_turn"
non_stream_stop_reason(body) ==
    LET acc == decode_events(body, [has_tool_use |-> FALSE,
                                    stop_reason |-> "end_turn"])
    IN  IF acc.has_tool_use /\ acc.stop_reason = "end_turn"
        THEN "tool_use" ELSE acc.stop_reason

\* the bodies the upstream may answer with
Bodies == UNION {[1..n -> Frames] : n \in 0..MaxFrames}

\* handle_non_stream_request: the upstream body is read and decoded, the
\* message is returned
HandleNonStreamRequest ==
    /\ gateway.non_stream.stop_reason = "none"
    /\ \E body \in Bodies :
           gateway' = [gateway EXCEPT !.non_stream =
                          [body |-> body,
                           stop_reason |-> non_stream_stop_reason(body)]]
    /\ UNCHANGED pool_and_tasks

\* the message is delivered; the next non-streaming request may come
NonStreamAgain ==
    /\ gateway.non_stream.stop_reason # "none"
    /\ gateway' = [gateway EXCEPT !.non_stream = NoNonStream]
    /\ UNCHANGED pool_and_tasks

\* the gateway after start-up, no request made yet
InitNonStream ==
    \E creds \in Numbered(Files(MaxEntries, 1..MaxEntries, {"normal"}, Groups,
                                {"valid"})) :
        InitFrom(creds, {}, {}, 0, 0, 0, 0)

NextNonStream ==
    \/ HandleNonStreamRequest
    \/ NonStreamAgain

SpecNonStream == InitNonStream /\ [][NextNonStream]_vars

\* ------------------------------------------------------------------------
\* The refresh paths of the admin API next to the one of acquire_context:
\* refresh_token_for, refresh_all_credentials and get_usage_limits_for.
\* credentials of an admin task is the local the code keeps across the HTTP
\* call: the credentials read from the entry, then the ones refresh_token
\* returned
\* ------------------------------------------------------------------------

\* what the refresh endpoint answers in this specification: a new access
\* token good for an hour, with a new refresh token or without one
RotatingResponses == RefreshResponses({"at1"}, {"none", "rtN"}, {"valid"})

\* acquire_context, the refresh answered by RotatingResponses
RefreshRotating(r) == RefreshSucceedsWithData(r, RotatingResponses)

\* refresh_token_for: the credentials of the entry are read, the request to
\* the refresh endpoint is sent
RefreshTokenForBegin(a) ==
    /\ AdmFree(a)
    /\ \E id \in Ids :
         LET i == FindIdx(entries, id) IN
         IF i = 0
         THEN adm' = [adm EXCEPT ![a] = Returned("Err")]
         ELSE adm' = [adm EXCEPT ![a].pc = "rtf_http", ![a].id = id,
                                 ![a].credentials = entries[i].credentials,
                                 ![a].ret = "none"]
    /\ ops_left' = Spend(ops_left)
    /\ UNCHANGED <<held, pool, refresh_lock, disk, req, expiries_left, gateway,
                   io_failures_left, faults_left>>

\* refresh_token(..).await?, an error
RefreshTokenForFails(a) ==
    /\ adm[a].pc = "rtf_http"
    /\ CanSpend(faults_left)
    /\ faults_left' = Spend(faults_left)
    /\ adm' = [adm EXCEPT ![a] = Returned("Err")]
    /\ UNCHANGED <<held, pool, refresh_lock, disk, req, ops_left, expiries_left,
                   gateway, io_failures_left>>

\* refresh_token(..).await?, new_credentials
RefreshTokenForAnswered(a) ==
    /\ adm[a].pc = "rtf_http"
    /\ \E data \in RotatingResponses :
         adm' = [adm EXCEPT ![a].pc = "rtf_store",
                            ![a].credentials = refresh_token(@, data)]
    /\ UNCHANGED <<held, pool, refresh_lock, disk, req, ops_left, expiries_left,
                   gateway, io_failures_left, faults_left>>

\* the block of refresh_token_for that updates the entry (profile_arn is
\* not part of the model)
refresh_token_for_update(es, id, new_credentials) ==
    LET i == FindIdx(es, id) IN
    IF i = 0 THEN es
    ELSE [es EXCEPT ![i].credentials.access_token = new_credentials.access_token,
                    ![i].credentials.expires_at = new_credentials.expires_at,
                    ![i].credentials.status = "normal"]

\* refresh_token_for: the entry is updated and the file written
RefreshTokenForStore(a) ==
    /\ adm[a].pc = "rtf_store"
    /\ entries' = refresh_token_for_update(entries, adm[a].id, adm[a].credentials)
    /\ \E io_ok \in IoOutcomes :
         /\ WriteFile(entries', io_ok)
         /\ adm' = [adm EXCEPT ![a] = Returned(IF io_ok THEN "Ok" ELSE "Err")]
    /\ UNCHANGED <<held, current_id, active_group_id, refresh_lock, req, ops_left,
                   expiries_left, gateway, faults_left>>

\* credentials_to_refresh of refresh_all_credentials
credentials_to_refresh(es) ==
    LET enabled == SelectSeq(es, LAMBDA e : ~e.disabled) IN
    [k \in 1..Len(enabled) |-> [id |-> enabled[k].id,
                                credentials |-> enabled[k].credentials]]

\* s without its k-th element
RemoveAt(s, k) == [n \in 1..(Len(s) - 1) |-> IF n < k THEN s[n] ELSE s[n + 1]]

\* refresh_all_credentials: the credentials of the enabled entries are
\* collected and their refresh requests sent
RefreshAllBegin(a) ==
    /\ AdmFree(a)
    /\ IF credentials_to_refresh(entries) = <<>>
       THEN adm' = [adm EXCEPT ![a] = Returned("Ok")]
       ELSE adm' = [adm EXCEPT ![a].pc = "ra_http",
                               ![a].to_refresh = credentials_to_refresh(entries),
                               ![a].ret = "none"]
    /\ ops_left' = Spend(ops_left)
    /\ UNCHANGED <<held, pool, refresh_lock, disk, req, expiries_left, gateway,
                   io_failures_left, faults_left>>

\* one of the concurrent refreshes is answered with a token: the entry gets
\* new_creds (id and credentials of the task: the ones of this refresh)
RefreshAllStore(a) ==
    /\ adm[a].pc = "ra_http"
    /\ \E k \in 1..Len(adm[a].to_refresh), data \in RotatingResponses :
         LET id == adm[a].to_refresh[k].id
             new_creds == refresh_token(adm[a].to_refresh[k].credentials, data)
             i == FindIdx(entries, id)
         IN  /\ entries' = IF i = 0 THEN entries
                           ELSE [entries EXCEPT ![i].credentials = new_creds]
             /\ adm' = [adm EXCEPT ![a].to_refresh = RemoveAt(@, k),
                                   ![a].id = id,
                                   ![a].credentials = new_creds]
    /\ UNCHANGED <<held, current_id, active_group_id, refresh_lock, disk, req,
                   ops_left, expiries_left, gateway, io_failures_left, faults_left>>

\* one of the concurrent refreshes is answered with an error: the entry is
\* suspended when the error says the credential is invalid
RefreshAllFails(a) ==
    /\ adm[a].pc = "ra_http"
    /\ CanSpend(faults_left)
    /\ faults_left' = Spend(faults_left)
    /\ \E k \in 1..Len(adm[a].to_refresh), msg \in RefreshErrors :
         /\ entries' = IF is_credential_invalid_error(msg)
                       THEN MarkSuspended(entries, adm[a].to_refresh[k].id)
                       ELSE entries
         /\ adm' = [adm EXCEPT ![a].to_refresh = RemoveAt(@, k)]
    /\ UNCHANGED <<held, current_id, active_group_id, refresh_lock, disk, req,
                   ops_left, expiries_left, gateway, io_failures_left>>

\* all refreshes are done: the file is written, a failure is only logged
RefreshAllFinish(a) ==
    /\ adm[a].pc = "ra_http"
    /\ adm[a].to_refresh = <<>>
    /\ \E io_ok \in IoOutcomes : WriteFile(entries, io_ok)
    /\ adm' = [adm EXCEPT ![a] = Returned("Ok")]
    /\ UNCHANGED <<held, pool, refresh_lock, req, ops_left, expiries_left, gateway,
                   faults_left>>

\* get_usage_limits_for: the credentials of the entry are read
GetUsageLimitsForBegin(a) ==
    /\ AdmFree(a)
    /\ \E id \in Ids :
         LET i == FindIdx(entries, id) IN
         IF i = 0
         THEN adm' = [adm EXCEPT ![a] = Returned("Err")]
         ELSE adm' = [adm EXCEPT ![a].pc = IF needs_refresh(entries[i].credentials)
                                           THEN "gul_wait" ELSE "gul_usage",
                                 ![a].id = id,
                                 ![a].credentials = entries[i].credentials,
                                 ![a].ret = "none"]
    /\ ops_left' = Spend(ops_left)
    /\ UNCHANGED <<held, pool, refresh_lock, disk, req, expiries_left, gateway,
                   io_failures_left, faults_left>>

\* the refresh lock is taken and the entry read again
GetUsageLimitsForLock(a) ==
    /\ adm[a].pc = "gul_wait"
    /\ refresh_lock = "free"
    /\ LET i == FindIdx(entries, adm[a].id) IN
       IF i = 0
       THEN /\ adm' = [adm EXCEPT ![a] = Returned("Err")]
            /\ UNCHANGED refresh_lock
       ELSE IF needs_refresh(entries[i].credentials)
            THEN /\ adm' = [adm EXCEPT ![a].pc = "gul_http",
                                       ![a].credentials = entries[i].credentials]
                 /\ refresh_lock' = a
            ELSE /\ adm' = [adm EXCEPT ![a].pc = "gul_usage",
                                       ![a].credentials = entries[i].credentials]
                 /\ UNCHANGED refresh_lock
    /\ UNCHANGED <<held, pool, disk, req, ops_left, expiries_left, gateway,
                   io_failures_left, faults_left>>

\* the refresh is answered with an error: the entry is suspended and the
\* file written when the error says the credential is invalid
GetUsageLimitsForRefreshFails(a) ==
    /\ adm[a].pc = "gul_http"
    /\ CanSpend(faults_left)
    /\ faults_left' = Spend(faults_left)
    /\ \E msg \in RefreshErrors, io_ok \in IoOutcomes :
         IF is_credential_invalid_error(msg)
         THEN /\ entries' = MarkSuspended(entries, adm[a].id)
              /\ WriteFile(entries', io_ok)
         ELSE UNCHANGED <<entries, disk, io_failures_left>>
    /\ refresh_lock' = "free"
    /\ adm' = [adm EXCEPT ![a] = Returned("Err")]
    /\ UNCHANGED <<held, current_id, active_group_id, req, ops_left, expiries_left,
                   gateway>>

\* the refresh is answered with a token: new_creds
GetUsageLimitsForAnswered(a) ==
    /\ adm[a].pc = "gul_http"
    /\ \E data \in RotatingResponses :
         adm' = [adm EXCEPT ![a].pc = "gul_store",
                            ![a].credentials = refresh_token(@, data)]
    /\ UNCHANGED <<held, pool, refresh_lock, disk, req, ops_left, expiries_left,
                   gateway, io_failures_left, faults_left>>

\* the entry gets new_creds, the file is written (a failure is only
\* logged), the refresh lock released
GetUsageLimitsForStore(a) ==
    /\ adm[a].pc = "gul_store"
    /\ LET i == FindIdx(entries, adm[a].id) IN
       entries' = IF i = 0 THEN entries
                  ELSE [entries EXCEPT ![i].credentials = adm[a].credentials]
    /\ \E io_ok \in IoOutcomes : WriteFile(entries', io_ok)
    /\ refresh_lock' = "free"
    /\ adm' = [adm EXCEPT ![a].pc = "gul_usage"]
    /\ UNCHANGED <<held, current_id, active_group_id, req, ops_left, expiries_left,
                   gateway, faults_left>>

\* get_usage_limits with the token: the usage is stored (its fields are not
\* part of the model) and the file written, or the entry is suspended on a
\* credential-invalid answer and the error returned
GetUsageLimitsForUsage(a) ==
    /\ adm[a].pc = "gul_usage"
    /\ \E answer \in {"usage", "403 suspended", "500"}, io_ok \in IoOutcomes :
         /\ answer # "usage" => CanSpend(faults_left)
         /\ faults_left' = IF answer = "usage" THEN faults_left
                           ELSE Spend(faults_left)
         /\ entries' = IF is_credential_invalid_error(BodyOf(answer))
                       THEN MarkSuspended(entries, adm[a].id)
                       ELSE entries
         /\ IF answer = "500" \/ FindIdx(entries, adm[a].id) = 0
            THEN UNCHANGED <<disk, io_failures_left>>
            ELSE WriteFile(entries', io_ok)
         /\ adm' = [adm EXCEPT ![a] = Returned(IF answer = "usage" THEN "Ok"
                                               ELSE "Err")]
    /\ UNCHANGED <<held, current_id, active_group_id, refresh_lock, req, ops_left,
                   expiries_left, gateway>>

\* a request and an admin task over a file of MaxEntries credentials whose
\* tokens have expired or not
InitRefresh ==
    \E creds \in Numbered(FilesOfLen(MaxEntries, 1..MaxEntries, {"normal"}, Groups,
                                     {"stale", "valid"})) :
        InitFrom(creds, {"r1"}, {"a1"}, MaxAdminOps, 0, 0, MaxFaults)

NextRefresh ==
    \/ \E r \in DOMAIN req :
          \/ Start(r)
          \/ ForLoop(r)
          \/ AcquireSelect(r)
          \/ SetCurrent(r)
          \/ LockAndRecheck(r)
          \/ RefreshFails(r)
          \/ RefreshRotating(r)
          \/ MarkInvalid(r)
          \/ SwitchNext(r)
          \/ Respond(r)
    \/ \E a \in DOMAIN adm :
          \/ SetGroup(a)
          \/ RefreshTokenForBegin(a)
          \/ RefreshTokenForFails(a)
          \/ RefreshTokenForAnswered(a)
          \/ RefreshTokenForStore(a)
          \/ RefreshAllBegin(a)
          \/ RefreshAllStore(a)
          \/ RefreshAllFails(a)
          \/ RefreshAllFinish(a)
          \/ GetUsageLimitsForBegin(a)
          \/ GetUsageLimitsForLock(a)
          \/ GetUsageLimitsForRefreshFails(a)
          \/ GetUsageLimitsForAnswered(a)
          \/ GetUsageLimitsForStore(a)
          \/ GetUsageLimitsForUsage(a)

SpecRefresh == InitRefresh /\ [][NextRefresh]_vars

\* ------------------------------------------------------------------------
\* Restart: a request whose refresh is refused, an admin task that moves
\* credentials between groups, and the reload of the file by a new process.
\* persist_credentials is taken here in its two steps: the credentials are
\* collected under the entries lock, and the file is written after the lock
\* is released (snapshot: the local `credentials` of persist_credentials)
\* ------------------------------------------------------------------------

\* acquire_context after a credential-invalid refresh error: the entry is
\* disabled under the entries lock; drop(entries)
MarkInvalidEntries(r) ==
    /\ req[r].pc = "mark"
    /\ entries' = MarkSuspended(entries, req[r].id)
    /\ req' = [req EXCEPT ![r].pc = "mark_collect"]
    /\ UNCHANGED <<held, current_id, active_group_id, refresh_lock, disk, adm,
                   ops_left, expiries_left, gateway, io_failures_left, faults_left>>

\* persist_credentials of the request task: the credentials of all entries
\* are cloned under the entries lock
MarkInvalidCollect(r) ==
    /\ req[r].pc = "mark_collect"
    /\ req' = [req EXCEPT ![r].pc = "mark_write", ![r].snapshot = CredsOf(entries)]
    /\ UNCHANGED <<held, pool, refresh_lock, disk, adm, ops_left, expiries_left, gateway,
                   io_failures_left, faults_left>>

\* persist_credentials of the request task: std::fs::write of the clone
MarkInvalidWrite(r) ==
    /\ req[r].pc = "mark_write"
    /\ disk' = persist_credentials_write(req[r].snapshot)
    /\ req' = [req EXCEPT ![r].pc = "switch", ![r].snapshot = <<>>]
    /\ UNCHANGED <<held, pool, refresh_lock, adm, ops_left, expiries_left, gateway,
                   io_failures_left, faults_left>>

\* set_group, the assignment under the entries lock
SetGroupEntries(a) ==
    /\ AdmFree(a)
    /\ \E id \in Ids, g \in Groups :
         /\ FindIdx(entries, id) # 0
         /\ entries' = set_group(entries, id, g)
         /\ adm' = [adm EXCEPT ![a].pc = "sg_collect", ![a].id = id,
                                ![a].ret = "none"]
    /\ ops_left' = Spend(ops_left)
    /\ UNCHANGED <<held, current_id, active_group_id, refresh_lock, disk, req,
                   expiries_left, gateway, io_failures_left, faults_left>>

\* persist_credentials of set_group: the clone under the entries lock
SetGroupCollect(a) ==
    /\ adm[a].pc = "sg_collect"
    /\ adm' = [adm EXCEPT ![a].pc = "sg_write", ![a].snapshot = CredsOf(entries)]
    /\ UNCHANGED <<held, pool, refresh_lock, disk, req, ops_left, expiries_left, gateway,
                   io_failures_left, faults_left>>

\* persist_credentials of set_group: std::fs::write of the clone; Ok(())
SetGroupWrite(a) ==
    /\ adm[a].pc = "sg_write"
    /\ disk' = persist_credentials_write(adm[a].snapshot)
    /\ adm' = [adm EXCEPT ![a] = Returned("Ok")]
    /\ UNCHANGED <<held, pool, refresh_lock, req, ops_left, expiries_left, gateway,
                   io_failures_left, faults_left>>

\* the process ends with no operation under way and a new process loads the
\* file: MultiTokenManager::new on the credentials of the file
Restart ==
    /\ \A r \in DOMAIN req : req[r].pc \in {"idle", "done"}
    /\ \A a \in DOMAIN adm : adm[a].pc = "idle"
    /\ NewOk(disk)
    /\ entries' = LoadEntries(disk)
    /\ current_id' = InitialId(LoadEntries(disk))
    /\ active_group_id' = NoGroup
    /\ refresh_lock' = "free"
    /\ req' = [r \in DOMAIN req |-> ReqIdle]
    /\ adm' = [a \in DOMAIN adm |-> AdmIdle]
    /\ held' = {}
    /\ UNCHANGED <<disk, ops_left, expiries_left, gateway, io_failures_left, faults_left>>

InitRestart ==
    \E creds \in Numbered(FilesOfLen(MaxEntries, 1..MaxEntries, {"normal"}, Groups,
                                     {"stale"})) :
        InitFrom(creds, {"r1"}, {"a1"}, MaxAdminOps, 0, 0, MaxFaults)

NextRestart ==
    \/ \E r \in DOMAIN req :
          \/ Start(r)
          \/ ForLoop(r)
          \/ AcquireSelect(r)
          \/ SetCurrent(r)
          \/ LockAndRecheck(r)
          \/ RefreshFails(r)
          \/ RefreshFresh(r)
          \/ MarkInvalidEntries(r)
          \/ MarkInvalidCollect(r)
          \/ MarkInvalidWrite(r)
          \/ SwitchNext(r)
          \/ Respond(r)
    \/ \E a \in DOMAIN adm :
          \/ SetGroupEntries(a)
          \/ SetGroupCollect(a)
          \/ SetGroupWrite(a)
    \/ Restart

SpecRestart == InitRestart /\ [][NextRestart]_vars

\* ------------------------------------------------------------------------
\* Two admin tasks that add and delete credentials
\* ------------------------------------------------------------------------
InitAdd ==
    \E creds \in Files(MaxEntries, 0..MaxEntries, {"normal"}, {"default"}, {"valid"}) :
        InitFrom(creds, {}, {"a1", "a2"}, MaxAddOps, 0, MaxIoFailures, MaxFaults)

NextAdd ==
    \E a \in DOMAIN adm :
        \/ AddStep(a)
        \/ DeleteBegin(a)
        \/ DeleteSelect(a)
        \/ DeleteFinish(a)

SpecAdd == InitAdd /\ [][NextAdd]_vars

\* One admin task that adds and deletes credentials, one call after another
InitAddSeq ==
    \E creds \in Files(MaxEntries, 0..MaxEntries, {"normal"}, {"default"}, {"valid"}) :
        InitFrom(creds, {}, {"a1"}, MaxAddOps + 1, 0, MaxIoFailures, MaxFaults)

SpecAddSeq == InitAddSeq /\ [][NextAdd]_vars


\* ------------------------------------------------------------------------
\* A request in flight while an admin task deletes a credential and adds
\* another one
\* ------------------------------------------------------------------------
InitReuse ==
    \E creds \in Numbered(FilesOfLen(MaxEntries, 1..MaxEntries, {"normal"},
                                     {"default"}, {"stale", "valid"})) :
        InitFrom(creds, {"r1"}, {"a1"}, MaxAddOps, 0, 0, MaxFaults)

NextReuse ==
    \/ \E r \in DOMAIN req :
          \/ Start(r)
          \/ ForLoop(r)
          \/ AcquireSelect(r)
          \/ SetCurrent(r)
          \/ LockAndRecheck(r)
          \/ RefreshFails(r)
          \/ RefreshSucceeds(r)
          \/ MarkInvalid(r)
          \/ SwitchNext(r)
          \/ Respond(r)
    \/ \E a \in DOMAIN adm :
          \/ AddStep(a)
          \/ DeleteBegin(a)
          \/ DeleteSelect(a)
          \/ DeleteFinish(a)

SpecReuse == InitReuse /\ [][NextReuse]_vars


\* ------------------------------------------------------------------------
\* Requests in flight while an admin task disables credentials and enables
\* none
\* ------------------------------------------------------------------------

\* set_disabled(id, true) is called
DisableBegin(a) == SetDisabledBegin(a) /\ adm'[a].disabled

InitManual ==
    \E creds \in Numbered(Files(MaxEntries, 1..MaxEntries, {"normal"}, {"default"},
                                {"valid"})) :
        /\ Len(creds) > 0
        /\ InitFrom(creds, {}, {"a1"}, MaxAdminOps, 0, 0, 0)

NextManual ==
    \/ PoolAcquire
    \/ PoolSetCurrent
    \/ PoolReportFailure
    \/ PoolReportSuccess
    \/ \E a \in DOMAIN adm :
          \/ DisableBegin(a)
          \/ SetDisabledSet(a)
          \/ SetDisabledSwitch(a)

SpecManual == InitManual /\ [][NextManual]_vars


\* ------------------------------------------------------------------------
\* The credentials file across restarts: the file is loaded, written again
\* by persist_credentials, and loaded by the next process
\* ------------------------------------------------------------------------

\* the files with each credential given any priority
WithPriorities(files) ==
    UNION {{[i \in 1..Len(f) |-> [f[i] EXCEPT !.priority = p[i]]] :
               p \in [1..Len(f) -> 0..MaxPriority]} : f \in files}

\* persist_credentials called with nothing changed since the last write (as
\* at the end of refresh_all_credentials when no entry is enabled); the write
\* succeeds
PersistCredentials ==
    /\ \A a \in DOMAIN adm : adm[a].pc = "idle"
    /\ disk' = persist_credentials(entries, disk, TRUE)
    /\ UNCHANGED <<pool, refresh_lock, req, adm, held, ops_left, expiries_left,
                   io_failures_left, faults_left, gateway>>

\* a file as persist_credentials writes it (every credential with its id),
\* in the order the credentials were added, with any priorities
InitReload ==
    \E creds \in WithPriorities(Numbered(Files(MaxEntries, 1..MaxEntries, Statuses,
                                               Groups, {"valid"}))) :
        /\ Len(creds) > 0
        /\ InitFrom(creds, {}, {"a1"}, MaxAdminOps, 0, 0, 0)

NextReload ==
    \/ PersistCredentials
    \/ Restart
    \/ \E a \in DOMAIN adm : SetGroup(a)

SpecReload == InitReload /\ [][NextReload]_vars


\* ------------------------------------------------------------------------
\* The three mutexes: each pool operation step by step, one step for every
\* lock(), every release of a guard and every critical section.  adm holds
\* the position and the locals of the calling task, gateway.mutex the task
\* that holds each mutex.
\* ------------------------------------------------------------------------
\* the mutexes this task holds
HeldBy(a) == {m \in Mutexes : gateway.mutex[m] = a}

\* <<from, mutex, to>>: the task at `from` calls mutex.lock() and is at `to`
\* once it has the guard
LockSteps ==
    {\* acquire_context: total_count(); the selection block; the write of
     \* current_id; the marking after a credential-invalid refresh error;
     \* available_count() of the final bail
     <<"ac_count", "entries", "ac_count_e">>,
     <<"ac", "entries", "ac_e">>,
     <<"ac_e", "current_id", "ac_ec">>,
     <<"ac_read", "active_group_id", "ac_ea">>,
     <<"ac_set", "current_id", "ac_set_c">>,
     <<"ac_invalid", "entries", "ac_invalid_e">>,
     <<"ac_bail", "entries", "ac_bail_e">>,
     \* try_ensure_token: the second check and the update of the entry
     <<"te_recheck", "entries", "te_recheck_e">>,
     <<"te_store", "entries", "te_store_e">>,
     \* switch_to_next_by_id
     <<"sbi", "entries", "sbi_e">>,
     <<"sbi_e", "current_id", "sbi_ec">>,
     \* persist_credentials, called by try_ensure_token, by the error arm of
     \* acquire_context and by delete_credential
     <<"te_persist", "entries", "te_persist_e">>,
     <<"inv_persist", "entries", "inv_persist_e">>,
     <<"del_persist", "entries", "del_persist_e">>,
     \* report_failure
     <<"rf", "entries", "rf_e">>,
     <<"rf_e", "current_id", "rf_ec">>,
     \* switch_to_next
     <<"sn", "entries", "sn_e">>,
     <<"sn_e", "current_id", "sn_ec">>,
     <<"sn_ec", "active_group_id", "sn_eca">>,
     \* set_active_group, then select_smallest_id_in_group
     <<"sag", "active_group_id", "sag_a">>,
     <<"ssg", "entries", "ssg_e">>,
     <<"ssg_e", "current_id", "ssg_ec">>,
     <<"ssg_ec", "active_group_id", "ssg_eca">>,
     \* delete_credential and its select_smallest_id
     <<"del", "entries", "del_e">>,
     <<"del_found", "current_id", "del_ec">>,
     <<"ss", "entries", "ss_e">>,
     <<"ss_e", "current_id", "ss_ec">>,
     <<"del_empty", "entries", "del_empty_e">>,
     <<"del_zero", "current_id", "del_zero_ec">>,
     \* snapshot
     <<"snap", "entries", "snap_e">>,
     <<"snap_e", "current_id", "snap_ec">>}

\* select_smallest_id_in_group as it would be if it locked active_group_id
\* before entries and current_id
LockStepsGroupFirst ==
    (LockSteps \ {<<"ssg", "entries", "ssg_e">>,
                  <<"ssg_e", "current_id", "ssg_ec">>,
                  <<"ssg_ec", "active_group_id", "ssg_eca">>})
    \cup {<<"ssg", "active_group_id", "ssg_e">>,
          <<"ssg_e", "entries", "ssg_ec">>,
          <<"ssg_ec", "current_id", "ssg_eca">>}

\* <<from, mutex, to>>: a guard that lives for one expression,
\* *self.current_id.lock() or self.entries.lock().len(): the value is copied
\* and the mutex released
ReadSteps ==
    {<<"ac_count_e", "entries", "ac_top">>,
     <<"ac_ec", "current_id", "ac_read">>,
     <<"ac_bail_e", "entries", "idle">>,
     <<"del_ec", "current_id", "del_read">>,
     <<"snap_ec", "current_id", "snap_read">>}

\* <<from, mutex, to>>: a guard is dropped, by drop() or at the end of its
\* scope (the guards of one scope in the reverse order of their declaration)
UnlockSteps ==
    {\* acquire_context: the current entry is usable; another one is picked;
     \* none is left (bail)
     <<"ac_cur", "active_group_id", "ac_cur_e">>,
     <<"ac_cur_e", "entries", "te">>,
     <<"ac_best", "active_group_id", "ac_best_e">>,
     <<"ac_best_e", "entries", "ac_set">>,
     <<"ac_none", "active_group_id", "ac_none_e">>,
     <<"ac_none_e", "entries", "idle">>,
     <<"ac_set_done", "current_id", "te">>,
     <<"ac_invalid_done", "entries", "inv_persist">>,
     \* try_ensure_token
     <<"te_read", "entries", "te_decide">>,
     <<"te_stored", "entries", "te_persist">>,
     \* switch_to_next_by_id
     <<"sbi_done", "current_id", "sbi_done_e">>,
     <<"sbi_done_e", "entries", "ac_inc">>,
     \* persist_credentials
     <<"te_collected", "entries", "te_write">>,
     <<"inv_collected", "entries", "inv_write">>,
     <<"del_collected", "entries", "del_write">>,
     \* report_failure
     <<"rf_done", "current_id", "rf_done_e">>,
     <<"rf_done_e", "entries", "idle">>,
     \* switch_to_next
     <<"sn_done", "active_group_id", "sn_done_ec">>,
     <<"sn_done_ec", "current_id", "sn_done_e">>,
     <<"sn_done_e", "entries", "idle">>,
     \* set_active_group, select_smallest_id_in_group
     <<"sag_set", "active_group_id", "ssg">>,
     <<"ssg_done", "active_group_id", "ssg_done_ec">>,
     <<"ssg_done_ec", "current_id", "ssg_done_e">>,
     <<"ssg_done_e", "entries", "idle">>,
     \* delete_credential, select_smallest_id
     <<"del_missing", "entries", "idle">>,
     <<"del_retained", "entries", "del_select">>,
     <<"ss_done", "current_id", "ss_done_e">>,
     <<"ss_done_e", "entries", "del_empty">>,
     <<"del_zero_done", "current_id", "del_end">>,
     <<"del_end", "entries", "del_persist">>,
     \* snapshot
     <<"snap_built", "entries", "idle">>}

\* the task is at this position with these locals changed
AtPc(a, pc) == adm[a].pc = pc
Goto(a, pc) == IF pc = "idle" THEN Returned("Ok") ELSE [adm[a] EXCEPT !.pc = pc]

\* the variables no step of the pool operations changes
lock_frame == <<held, req, ops_left, expiries_left, io_failures_left>>

\* lock(): the task gets the mutex when no task holds it and waits otherwise
\* (a parking_lot mutex is not reentrant)
LockMutexBy(a, steps) ==
    \E s \in steps :
        /\ AtPc(a, s[1])
        /\ gateway.mutex[s[2]] = "free"
        /\ gateway' = [gateway EXCEPT !.mutex[s[2]] = a]
        /\ adm' = [adm EXCEPT ![a] = Goto(a, s[3])]
        /\ UNCHANGED <<pool, refresh_lock, disk, faults_left, lock_frame>>

LockMutexGroupFirst(a) == LockMutexBy(a, LockStepsGroupFirst)

LockMutex(a) == LockMutexBy(a, LockSteps)

\* a guard of one expression: current_id or the length of entries is read
ReadAndRelease(a) ==
    \E s \in ReadSteps :
        /\ AtPc(a, s[1])
        /\ gateway.mutex[s[2]] = a
        /\ gateway' = [gateway EXCEPT !.mutex[s[2]] = "free"]
        /\ adm' = [adm EXCEPT ![a] =
                     IF s[3] = "idle" THEN Returned("Ok")
                     ELSE IF s[2] = "current_id"
                     THEN [Goto(a, s[3]) EXCEPT !.current_id = current_id]
                     ELSE [Goto(a, s[3]) EXCEPT !.total = Len(entries)]]
        /\ UNCHANGED <<pool, refresh_lock, disk, faults_left, lock_frame>>

\* a guard is dropped
UnlockMutex(a) ==
    \E s \in UnlockSteps :
        /\ AtPc(a, s[1])
        /\ gateway.mutex[s[2]] = a
        /\ gateway' = [gateway EXCEPT !.mutex[s[2]] = "free"]
        /\ adm' = [adm EXCEPT ![a] = Goto(a, s[3])]
        /\ UNCHANGED <<pool, refresh_lock, disk, faults_left, lock_frame>>

\* the operations of the pool a task may call, with the position each one
\* starts at
PoolOperations ==
    {"acquire_context", "report_failure", "switch_to_next", "set_active_group",
     "delete_credential", "snapshot"}

EntryPoint(op) ==
    CASE op = "acquire_context" -> "ac_count"
      [] op = "report_failure" -> "rf"
      [] op = "switch_to_next" -> "sn"
      [] op = "set_active_group" -> "sag"
      [] op = "delete_credential" -> "del"
      [] op = "snapshot" -> "snap"

\* a task that called none yet calls one of the operations: report_failure
\* and delete_credential with an id, set_active_group with a group or None
PoolCall(a) ==
    /\ AdmFree(a)
    /\ adm[a].ret = "none"
    /\ ops_left' = Spend(ops_left)
    /\ \E op \in PoolOperations, id \in Ids, g \in Groups \cup {NoGroup} :
         /\ op \in {"report_failure", "delete_credential"} \/ id = 1
         /\ op = "set_active_group" \/ g = NoGroup
         /\ adm' = [adm EXCEPT ![a] = [AdmIdle EXCEPT !.pc = EntryPoint(op),
                                                      !.id = id,
                                                      !.group_id = g]]
    /\ UNCHANGED <<pool, refresh_lock, disk, gateway, faults_left, held, req,
                   expiries_left, io_failures_left>>

\* acquire_context, top of the loop: bail when every credential was tried
AcquireLoopTop(a) ==
    /\ adm[a].pc \in {"ac_top", "ac_inc"}
    /\ LET tried_count == IF AtPc(a, "ac_inc") THEN adm[a].tried_count + 1
                          ELSE adm[a].tried_count
       IN  adm' = [adm EXCEPT ![a].tried_count = tried_count,
                              ![a].pc = IF tried_count >= adm[a].total
                                        THEN "ac_bail" ELSE "ac"]
    /\ UNCHANGED <<pool, refresh_lock, disk, gateway, faults_left, lock_frame>>

\* acquire_context, the selection block under entries and active_group_id,
\* with the current_id read before
AcquireSelectLocked(a) ==
    /\ AtPc(a, "ac_ea")
    /\ LET r == acquire_select(entries, adm[a].current_id, active_group_id) IN
         /\ entries' = r.entries
         /\ adm' = [adm EXCEPT
               ![a].pc = IF r.idx = 0 THEN "ac_none"
                         ELSE IF r.is_current THEN "ac_cur" ELSE "ac_best",
               ![a].id = IdOfIdx(r.entries, r.idx),
               ![a].credentials = IF r.idx = 0 THEN NoCredentials
                                  ELSE r.entries[r.idx].credentials]
    /\ UNCHANGED <<current_id, active_group_id, refresh_lock, disk, gateway,
                   faults_left, lock_frame>>

\* acquire_context: *current_id = new_id, under current_id alone
SetCurrentLocked(a) ==
    /\ AtPc(a, "ac_set_c")
    /\ current_id' = adm[a].id
    /\ adm' = [adm EXCEPT ![a].pc = "ac_set_done"]
    /\ UNCHANGED <<entries, active_group_id, refresh_lock, disk, gateway,
                   faults_left, lock_frame>>

\* try_ensure_token, first check without any lock: the context is returned
\* for a fresh token, else the task goes to wait for the refresh lock
TryEnsureToken(a) ==
    /\ AtPc(a, "te")
    /\ adm' = [adm EXCEPT ![a] = IF needs_refresh(adm[a].credentials)
                                 THEN Goto(a, "te_wait") ELSE Returned("Ok")]
    /\ UNCHANGED <<pool, refresh_lock, disk, gateway, faults_left, lock_frame>>

\* self.refresh_lock.lock().await
RefreshLockAwait(a) ==
    /\ AtPc(a, "te_wait")
    /\ refresh_lock = "free"
    /\ refresh_lock' = a
    /\ adm' = [adm EXCEPT ![a].pc = "te_recheck"]
    /\ UNCHANGED <<pool, disk, gateway, faults_left, lock_frame>>

\* try_ensure_token, second check: the credentials are read again under
\* entries ("Err" when the entry is gone)
TryEnsureReread(a) ==
    /\ AtPc(a, "te_recheck_e")
    /\ LET i == FindIdx(entries, adm[a].id) IN
         adm' = [adm EXCEPT ![a].pc = "te_read",
                            ![a].ret = IF i = 0 THEN "Err" ELSE "none",
                            ![a].credentials = IF i = 0 THEN NoCredentials
                                               ELSE entries[i].credentials]
    /\ UNCHANGED <<pool, refresh_lock, disk, gateway, faults_left, lock_frame>>

\* after the second check: the error is returned, or the context when another
\* task refreshed the token, or the refresh call is made
TryEnsureDecide(a) ==
    /\ AtPc(a, "te_decide")
    /\ IF adm[a].ret = "Err"
       THEN /\ refresh_lock' = "free"
            /\ adm' = [adm EXCEPT ![a].pc = "sbi", ![a].ret = "none"]
       ELSE IF needs_refresh(adm[a].credentials)
            THEN /\ adm' = [adm EXCEPT ![a].pc = "te_http"]
                 /\ UNCHANGED refresh_lock
            ELSE /\ refresh_lock' = "free"
                 /\ adm' = [adm EXCEPT ![a] = Returned("Ok")]
    /\ UNCHANGED <<pool, disk, gateway, faults_left, lock_frame>>

\* refresh_token(...).await answers: with a token good for an hour, or with
\* an error, which releases the refresh lock and sends acquire_context to its
\* error arm
RefreshAwait(a) ==
    /\ AtPc(a, "te_http")
    /\ \/ /\ \E data \in RefreshResponses({FileAccessToken}, {"none"}, {"valid"}) :
               adm' = [adm EXCEPT ![a].pc = "te_store",
                                  ![a].credentials = refresh_token(@, data)]
          /\ UNCHANGED <<refresh_lock, faults_left>>
       \/ /\ CanSpend(faults_left)
          /\ faults_left' = Spend(faults_left)
          /\ refresh_lock' = "free"
          /\ \E msg \in RefreshErrors :
               adm' = [adm EXCEPT ![a].pc = IF is_credential_invalid_error(msg)
                                            THEN "ac_invalid" ELSE "sbi"]
    /\ UNCHANGED <<pool, disk, gateway, lock_frame>>

\* try_ensure_token: entry.credentials = new_creds, under entries
TryEnsureStoreLocked(a) ==
    /\ AtPc(a, "te_store_e")
    /\ LET i == FindIdx(entries, adm[a].id) IN
         entries' = IF i = 0 THEN entries
                    ELSE [entries EXCEPT ![i].credentials = adm[a].credentials]
    /\ adm' = [adm EXCEPT ![a].pc = "te_stored"]
    /\ UNCHANGED <<current_id, active_group_id, refresh_lock, disk, gateway,
                   faults_left, lock_frame>>

\* acquire_context, error arm: the entry is marked invalid, under entries
MarkInvalidLocked(a) ==
    /\ AtPc(a, "ac_invalid_e")
    /\ entries' = MarkSuspended(entries, adm[a].id)
    /\ adm' = [adm EXCEPT ![a].pc = "ac_invalid_done"]
    /\ UNCHANGED <<current_id, active_group_id, refresh_lock, disk, gateway,
                   faults_left, lock_frame>>

\* switch_to_next_by_id, under entries and current_id
SwitchToNextByIdLocked(a) ==
    /\ AtPc(a, "sbi_ec")
    /\ current_id' = switch_to_next_by_id(entries, current_id)
    /\ adm' = [adm EXCEPT ![a].pc = "sbi_done"]
    /\ UNCHANGED <<entries, active_group_id, refresh_lock, disk, gateway,
                   faults_left, lock_frame>>

\* persist_credentials: the credentials are collected under entries
PersistCollectLocked(a) ==
    /\ adm[a].pc \in {"te_persist_e", "inv_persist_e", "del_persist_e"}
    /\ adm' = [adm EXCEPT ![a].snapshot = CredsOf(entries),
                          ![a].pc = CASE AtPc(a, "te_persist_e") -> "te_collected"
                                      [] AtPc(a, "inv_persist_e") -> "inv_collected"
                                      [] AtPc(a, "del_persist_e") -> "del_collected"]
    /\ UNCHANGED <<pool, refresh_lock, disk, gateway, faults_left, lock_frame>>

\* persist_credentials: the file is written with no mutex held; then
\* try_ensure_token returns the context and releases the refresh lock, the
\* error arm of acquire_context goes on, delete_credential returns
PersistWriteUnlocked(a) ==
    /\ adm[a].pc \in {"te_write", "inv_write", "del_write"}
    /\ disk' = persist_credentials_write(adm[a].snapshot)
    /\ refresh_lock' = IF AtPc(a, "te_write") THEN "free" ELSE refresh_lock
    /\ adm' = [adm EXCEPT ![a] = IF AtPc(a, "inv_write")
                                 THEN [Goto(a, "sbi") EXCEPT !.snapshot = <<>>]
                                 ELSE Returned("Ok")]
    /\ UNCHANGED <<pool, gateway, faults_left, lock_frame>>

\* report_failure, under entries and current_id
ReportFailureLocked(a) ==
    /\ AtPc(a, "rf_ec")
    /\ LET rf == report_failure(entries, current_id, adm[a].id) IN
         /\ entries' = rf.entries
         /\ current_id' = rf.current_id
    /\ adm' = [adm EXCEPT ![a].pc = "rf_done"]
    /\ UNCHANGED <<active_group_id, refresh_lock, disk, gateway, faults_left,
                   lock_frame>>

\* switch_to_next, under the three mutexes
SwitchToNextLocked(a) ==
    /\ AtPc(a, "sn_eca")
    /\ current_id' = switch_to_next(entries, current_id, active_group_id).current_id
    /\ adm' = [adm EXCEPT ![a].pc = "sn_done"]
    /\ UNCHANGED <<entries, active_group_id, refresh_lock, disk, gateway,
                   faults_left, lock_frame>>

\* set_active_group: *active = group_id, under active_group_id alone
SetActiveGroupLocked(a) ==
    /\ AtPc(a, "sag_a")
    /\ active_group_id' = adm[a].group_id
    /\ adm' = [adm EXCEPT ![a].pc = "sag_set"]
    /\ UNCHANGED <<entries, current_id, refresh_lock, disk, gateway,
                   faults_left, lock_frame>>

\* select_smallest_id_in_group, under the three mutexes
SelectSmallestIdInGroupLocked(a) ==
    /\ AtPc(a, "ssg_eca")
    /\ current_id' = select_smallest_id_in_group(entries, current_id, active_group_id)
    /\ adm' = [adm EXCEPT ![a].pc = "ssg_done"]
    /\ UNCHANGED <<entries, active_group_id, refresh_lock, disk, gateway,
                   faults_left, lock_frame>>

\* delete_credential, under entries: the entry is looked up
DeleteFindLocked(a) ==
    /\ AtPc(a, "del_e")
    /\ adm' = [adm EXCEPT ![a].pc = IF FindIdx(entries, adm[a].id) = 0
                                    THEN "del_missing" ELSE "del_found"]
    /\ UNCHANGED <<pool, refresh_lock, disk, gateway, faults_left, lock_frame>>

\* delete_credential, under entries, current_id read: the entry is removed
DeleteRetainLocked(a) ==
    /\ AtPc(a, "del_read")
    /\ entries' = retain_other_ids(entries, adm[a].id)
    /\ adm' = [adm EXCEPT ![a].pc = "del_retained"]
    /\ UNCHANGED <<current_id, active_group_id, refresh_lock, disk, gateway,
                   faults_left, lock_frame>>

\* delete_credential, no mutex held: if was_current { select_smallest_id() }
DeleteWasCurrent(a) ==
    /\ AtPc(a, "del_select")
    /\ adm' = [adm EXCEPT ![a].pc = IF adm[a].current_id = adm[a].id
                                    THEN "ss" ELSE "del_empty"]
    /\ UNCHANGED <<pool, refresh_lock, disk, gateway, faults_left, lock_frame>>

\* select_smallest_id, under entries and current_id
SelectSmallestIdLocked(a) ==
    /\ AtPc(a, "ss_ec")
    /\ current_id' = select_smallest_id(entries, current_id)
    /\ adm' = [adm EXCEPT ![a].pc = "ss_done"]
    /\ UNCHANGED <<entries, active_group_id, refresh_lock, disk, gateway,
                   faults_left, lock_frame>>

\* delete_credential, under entries: if entries.is_empty()
DeleteIsEmptyLocked(a) ==
    /\ AtPc(a, "del_empty_e")
    /\ adm' = [adm EXCEPT ![a].pc = IF Len(entries) = 0 THEN "del_zero"
                                    ELSE "del_end"]
    /\ UNCHANGED <<pool, refresh_lock, disk, gateway, faults_left, lock_frame>>

\* delete_credential, under entries and current_id: *current_id = 0
DeleteZeroLocked(a) ==
    /\ AtPc(a, "del_zero_ec")
    /\ current_id' = 0
    /\ adm' = [adm EXCEPT ![a].pc = "del_zero_done"]
    /\ UNCHANGED <<entries, active_group_id, refresh_lock, disk, gateway,
                   faults_left, lock_frame>>

\* snapshot, under entries, current_id read: the entries are copied
SnapshotLocked(a) ==
    /\ AtPc(a, "snap_read")
    /\ adm' = [adm EXCEPT ![a].pc = "snap_built",
                          ![a].snapshot = CredsOf(entries)]
    /\ UNCHANGED <<pool, refresh_lock, disk, gateway, faults_left, lock_frame>>

\* the critical sections and the steps between them
PoolSection(a) ==
    \/ AcquireLoopTop(a)
    \/ AcquireSelectLocked(a)
    \/ SetCurrentLocked(a)
    \/ TryEnsureToken(a)
    \/ RefreshLockAwait(a)
    \/ TryEnsureReread(a)
    \/ TryEnsureDecide(a)
    \/ RefreshAwait(a)
    \/ TryEnsureStoreLocked(a)
    \/ MarkInvalidLocked(a)
    \/ SwitchToNextByIdLocked(a)
    \/ PersistCollectLocked(a)
    \/ PersistWriteUnlocked(a)
    \/ ReportFailureLocked(a)
    \/ SwitchToNextLocked(a)
    \/ SetActiveGroupLocked(a)
    \/ SelectSmallestIdInGroupLocked(a)
    \/ DeleteFindLocked(a)
    \/ DeleteRetainLocked(a)
    \/ DeleteWasCurrent(a)
    \/ SelectSmallestIdLocked(a)
    \/ DeleteIsEmptyLocked(a)
    \/ DeleteZeroLocked(a)
    \/ SnapshotLocked(a)

\* a task in an operation takes its next step
PoolStep ==
    \E a \in DOMAIN adm :
        LockMutex(a) \/ ReadAndRelease(a) \/ UnlockMutex(a) \/ PoolSection(a)

\* two tasks that call one operation each, on a file of numbered credentials
\* of the default group whose tokens are stale or fresh
InitLocks ==
    \E creds \in Numbered(FilesOfLen(MaxEntries, 1..MaxEntries, {"normal"},
                                     {"default"}, {"stale", "valid"})) :
        InitFrom(creds, {}, {"t1", "t2"}, Unlimited, 0, 0, MaxFaults)

NextLocks ==
    \/ \E a \in DOMAIN adm : PoolCall(a)
    \/ PoolStep

SpecLocks == InitLocks /\ [][NextLocks]_vars


\* ------------------------------------------------------------------------
\* ProxyServerController and the proxy server tasks it spawns (dual-port
\* mode).  gateway.is_running is the AtomicBool the controller and its tasks
\* share.
\* ------------------------------------------------------------------------
\* a task just spawned: run_proxy_only_server has not bound its port, its
\* watch receiver has seen neither a value nor the drop of the sender
SpawnedTask == [state |-> "spawned", shutdown |-> FALSE]

\* the receiver of this task sees tx.send(true) or the drop of its sender
\* (0: there is no sender)
signal_shutdown(tasks, t) ==
    IF t = 0 THEN tasks ELSE [tasks EXCEPT ![t].shutdown = TRUE]

\* ProxyServerController::start: nothing when is_running; else a new channel
\* replaces the sender kept (which is dropped), is_running is stored true and
\* the task spawned
controller_start(gw) ==
    IF gw.is_running THEN gw
    ELSE [gw EXCEPT !.server = [shutdown_tx |-> Len(@.tasks) + 1,
                                tasks |-> Append(signal_shutdown(@.tasks,
                                                                 @.shutdown_tx),
                                                 SpawnedTask)],
                    !.is_running = TRUE]

\* ProxyServerController::stop: the sender is taken and sends true,
\* is_running is stored false
controller_stop(gw) ==
    [gw EXCEPT !.server = [shutdown_tx |-> 0,
                           tasks |-> signal_shutdown(@.tasks, @.shutdown_tx)],
               !.is_running = FALSE]

\* POST /api/admin/proxy/enabled in dual-port mode, under the lock of the
\* controller: start when enabled and not running (then
\* refresh_credential_selection and the flag), stop when disabled and
\* running, nothing else
SetProxyEnabledDual(enabled) ==
    /\ gateway.mode = "dual"
    /\ IF enabled /\ ~gateway.is_running
       THEN /\ Len(gateway.server.tasks) < MaxServerTasks
            /\ gateway' = [controller_start(gateway) EXCEPT
                              !.flag[gateway.admin_flag] = TRUE]
            /\ current_id' = select_smallest_id_in_group(entries, current_id,
                                                         active_group_id)
       ELSE IF ~enabled /\ gateway.is_running
            THEN /\ gateway' = [controller_stop(gateway) EXCEPT
                                   !.flag[gateway.admin_flag] = FALSE]
                 /\ UNCHANGED current_id
            ELSE UNCHANGED <<gateway, current_id>>
    /\ UNCHANGED <<entries, active_group_id, refresh_lock, disk, req, adm, held,
                   ops_left, expiries_left, io_failures_left, faults_left>>

\* run_proxy_only_server up to axum::serve: the active group of the
\* configuration is set on the token manager (set_active_group, which selects
\* the smallest id of the group), a port is bound (the next one when the
\* port is taken) and the task serves
ServerServe(t) ==
    /\ gateway.server.tasks[t].state = "spawned"
    /\ gateway' = [gateway EXCEPT !.server.tasks[t].state = "serving"]
    /\ current_id' = select_smallest_id_in_group(entries, current_id,
                                                 active_group_id)
    /\ UNCHANGED <<entries, active_group_id, refresh_lock, disk, req, adm, held,
                   ops_left, expiries_left, io_failures_left, faults_left>>

\* with_graceful_shutdown: shutdown_rx.changed() returns, the task accepts no
\* new connection and lets the open ones finish
ServerShutdown(t) ==
    /\ gateway.server.tasks[t].state = "serving"
    /\ gateway.server.tasks[t].shutdown
    /\ gateway' = [gateway EXCEPT !.server.tasks[t].state = "draining"]
    /\ UNCHANGED <<pool, refresh_lock, disk, req, adm, held, ops_left,
                   expiries_left, io_failures_left, faults_left>>

\* axum::serve returns once the open connections are closed; the task stores
\* false in is_running and ends
ServerFinish(t) ==
    /\ gateway.server.tasks[t].state = "draining"
    /\ gateway' = [gateway EXCEPT !.server.tasks[t].state = "stopped",
                                  !.is_running = FALSE]
    /\ UNCHANGED <<pool, refresh_lock, disk, req, adm, held, ops_left,
                   expiries_left, io_failures_left, faults_left>>

\* run_dual_port_server: the controller is started when proxy_auto_start is
\* set; no request and no admin task
InitController ==
    \E creds \in Numbered(Files(MaxEntries, 1..MaxEntries, {"normal"}, Groups,
                                {"valid"})),
       proxy_auto_start \in BOOLEAN :
        /\ entries = LoadEntries(creds)
        /\ current_id = InitialId(LoadEntries(creds))
        /\ active_group_id = NoGroup
        /\ refresh_lock = "free"
        /\ disk = creds
        /\ req = [r \in {} |-> ReqIdle]
        /\ adm = [a \in {} |-> AdmIdle]
        /\ held = {}
        /\ ops_left = 0
        /\ expiries_left = 0
        /\ io_failures_left = 0
        /\ faults_left = 0
        /\ gateway = IF proxy_auto_start
                     THEN controller_start([NewGateway("dual", TRUE) EXCEPT
                                               !.is_running = FALSE])
                     ELSE NewGateway("dual", FALSE)

NextController ==
    \/ \E enabled \in BOOLEAN : SetProxyEnabledDual(enabled)
    \/ \E t \in 1..Len(gateway.server.tasks) : ServerServe(t)
    \/ \E t \in 1..Len(gateway.server.tasks) : ServerShutdown(t)
    \/ \E t \in 1..Len(gateway.server.tasks) : ServerFinish(t)

SpecController == InitController /\ [][NextController]_vars


\* ========================================================================
\* Properties
\* ========================================================================

\* the entry of this id is usable under this active group
Usable(es, id, active) ==
    \E i \in 1..Len(es) :
        /\ es[i].id = id
        /\ ~es[i].disabled
        /\ es[i].credentials.status # "invalid"
        /\ (active = NoGroup \/ es[i].credentials.group_id = active)

\* the ids of the usable entries
UsableIds(es, active) == {es[i].id : i \in {k \in 1..Len(es) : Usable(es, es[k].id, active)}}

\* no operation is between two of its critical sections
Quiescent ==
    /\ \A a \in DOMAIN adm : adm[a].pc = "idle"
    /\ \A r \in DOMAIN req : req[r].pc \in {"idle", "done"}
    /\ \A h \in held : h.pc = "send"

\* C1: acquire_context never returns a context for an entry that is disabled,
\* invalid or outside the active group (checked at the step that returns the
\* context to call_api_with_retry)
C1_ReturnsUsableEntry ==
    [][\A r \in DOMAIN req :
          (req[r].pc # "send" /\ req'[r].pc = "send") =>
              \A i \in 1..Len(entries') :
                  entries'[i].id = req'[r].id =>
                      /\ ~entries'[i].disabled
                      /\ entries'[i].credentials.status # "invalid"
                      /\ \/ active_group_id' = NoGroup
                         \/ entries'[i].credentials.group_id = active_group_id']_vars

\* C2: no entry has status "invalid" while it is not disabled
C2_InvalidImpliesDisabled ==
    \A i \in 1..Len(entries) :
        entries[i].credentials.status = "invalid" => entries[i].disabled

\* C3: every entry that is not disabled has failure_count <
\* MAX_FAILURES_PER_CREDENTIAL
C3_EnabledBelowThreshold ==
    \A i \in 1..Len(entries) :
        ~entries[i].disabled =>
            entries[i].failure_count < MAX_FAILURES_PER_CREDENTIAL

\* an entry was disabled at the threshold while another one, two failures
\* counted, is still enabled
C3_Witness ==
    /\ \E i \in 1..Len(entries) :
          entries[i].disabled /\ entries[i].failure_count >= 3
    /\ \E i \in 1..Len(entries) :
          ~entries[i].disabled /\ entries[i].failure_count = 2
    /\ held # {}

\* C4: the third consecutive report_failure(id) leaves the entry disabled for
\* TooManyFailures, and report_failure returns false exactly when all entries
\* are disabled after it (for every report a caller holding a context can
\* make in a reachable state)
C4_ReportFailureResult ==
    \A h \in held :
        h.pc = "send" =>
            LET rf == report_failure(entries, current_id, h.id) IN
            /\ \A i \in 1..Len(entries) :
                  (entries[i].id = h.id /\ entries[i].failure_count = 2) =>
                      /\ rf.entries[i].disabled
                      /\ rf.entries[i].disabled_reason = "TooManyFailures"
            /\ (rf.ret = FALSE) <=>
                  \A i \in 1..Len(rf.entries) : rf.entries[i].disabled

\* C5: the id acquire_context returns is the smallest id among the entries
\* available and in the active group at the moment of selection
C5_ReturnsSmallest ==
    [][PoolAcquire =>
          \A h \in held' \ held :
              /\ h.id \in UsableIds(entries', active_group_id)
              /\ \A id \in UsableIds(entries', active_group_id) : h.id <= id]_vars

\* C5 as the code has it: the current entry when it is available and in the
\* active group, else the smallest id among the available entries of the group
C5_ReturnsCurrentElseSmallest ==
    [][PoolAcquire =>
          \A h \in held' \ held :
              /\ h.id \in UsableIds(entries', active_group_id)
              /\ IF current_id \in UsableIds(entries, active_group_id)
                 THEN h.id = current_id
                 ELSE \A id \in UsableIds(entries', active_group_id) : h.id <= id]_vars

\* a context for the current entry is held while an entry of smaller id is
\* available in the group, and a context was handed out after a self-heal
C5_Witness ==
    /\ \E h \in held :
          /\ h.pc = "send"
          /\ h.id = current_id
          /\ h.id \in UsableIds(entries, active_group_id)
          /\ \E id \in UsableIds(entries, active_group_id) : id < h.id
    /\ Cardinality(held) >= 2

\* C6: current_id is 0 or the id of an existing, available entry of the
\* active group, whenever no operation is under way
C6_CurrentIdUsable ==
    Quiescent =>
        \/ current_id = 0
        \/ Usable(entries, current_id, active_group_id)

\* C7: no two entries of the pool share an id
C7_UniqueIds ==
    \A i, j \in 1..Len(entries) : i # j => entries[i].id # entries[j].id

\* C8: a request makes at most min(pool_size * 3, 9) attempts (the pool keeps
\* its size: nobody adds or deletes; an attempt under way is counted with the
\* finished ones) and call_api_with_retry returns
C8_BoundedAttemptsAndReturn ==
    /\ [](\A r \in {"r1"} :
            /\ req[r].attempt <= Min(Len(entries) * 3, 9)
            /\ req[r].pc \notin {"idle", "for", "done"} =>
                   req[r].attempt + 1 <= Min(Len(entries) * 3, 9))
    /\ (req["r1"].pc = "for") ~> (req["r1"].pc = "done")

\* a request over four credentials has returned after its ninth attempt
C8_Witness ==
    /\ Len(entries) = 4
    /\ req["r1"].pc = "done"
    /\ req["r1"].attempt = 9
    /\ req["r1"].result = "error"

\* C9: an answer that matches the credential-invalid predicate (403 with
\* TEMPORARILY_SUSPENDED) disables the credential as Suspended, sets its
\* status to "invalid" and does not count a failure
C9_SuspensionDisablesUncharged ==
    [][\A r \in DOMAIN req :
          (/\ req[r].pc = "send"
           /\ req'[r].pc # "send"
           /\ req'[r].status = "403 suspended") =>
              \A i \in 1..Len(entries) :
                  entries[i].id = req[r].id =>
                      /\ entries'[i].disabled
                      /\ entries'[i].disabled_reason = "Suspended"
                      /\ entries'[i].credentials.status = "invalid"
                      /\ entries'[i].failure_count = entries[i].failure_count]_vars

\* C10: on a 400 call_api_with_retry returns an error at once, sends nothing
\* more for this request and leaves every credential as it was
C10_BadRequestReturnsUncharged ==
    [][\A r \in DOMAIN req :
          /\ (/\ req[r].pc = "send"
              /\ req'[r].pc # "send"
              /\ req'[r].status = "400") =>
                 /\ req'[r].pc = "done"
                 /\ req'[r].result = "error"
                 /\ Len(entries') = Len(entries)
                 /\ \A i \in 1..Len(entries) :
                       /\ entries'[i].failure_count = entries[i].failure_count
                       /\ entries'[i].disabled = entries[i].disabled
                       /\ entries'[i].disabled_reason = entries[i].disabled_reason
                       /\ entries'[i].credentials.status = entries[i].credentials.status
          /\ (req[r].pc = "done" /\ req[r].status = "400") =>
                 req'[r].pc \in {"done", "idle"}]_vars

\* a request has returned the error of a 400 over a pool that has a failure
\* on its count
C10_Witness ==
    /\ req["r1"].pc = "done"
    /\ req["r1"].status = "400"
    /\ req["r1"].result = "error"
    /\ \E i \in 1..Len(entries) : entries[i].failure_count > 0

\* the health of a credential: the fields failures and suspensions write
Health(e) == <<e.failure_count, e.disabled, e.disabled_reason, e.credentials.status>>

C12_OutageOfTwoCredentials ==
    /\ [](Len(entries) = 2 =>
            /\ req["r1"].pc = "send" =>
                   /\ req["r1"].attempt <= 5
                   /\ req["r1"].id = IF req["r1"].attempt <= 2 THEN 1 ELSE 2
            /\ req["r1"].pc = "done" =>
                   /\ req["r1"].attempt = 5
                   /\ req["r1"].status = "500"
                   /\ req["r1"].result = "error"
                   /\ \A i \in 1..2 :
                         /\ entries[i].disabled
                         /\ entries[i].disabled_reason = "TooManyFailures"
                         /\ entries[i].failure_count = 3)
    /\ (req["r1"].pc = "for") ~> (req["r1"].pc = "done")

\* the request over two credentials has returned
C12_Witness ==
    /\ Len(entries) = 2
    /\ req["r1"].pc = "done"
    /\ req["r1"].attempt = 5
    /\ req["r1"].result = "error"
    /\ \A i \in 1..2 : entries[i].disabled_reason = "TooManyFailures"

\* C13: in a pool of one credential that three failures have disabled, the
\* acquire_context of the next request fails: it hands out no context, so no
\* request is sent with the credential, and the entry stays disabled
C13_DisabledSingleCredentialFails ==
    [][\A r \in DOMAIN req :
          (/\ req[r].pc = "acquire"
           /\ req'[r].pc # "acquire"
           /\ Len(entries) = 1
           /\ entries[1].disabled
           /\ entries[1].disabled_reason = "TooManyFailures") =>
              /\ req'[r].pc = "for"
              /\ req'[r].attempt = req[r].attempt + 1
              /\ entries'[1].disabled]_vars

\* C14: the self-heal of acquire_context (no entry is available in the active
\* group and some entry is disabled for TooManyFailures) re-enables the
\* entries whose disabled_reason is TooManyFailures, with failure_count 0 and
\* no reason, and leaves every other entry as it is: those disabled as Manual
\* or Suspended keep disabled, disabled_reason and failure_count
C14_SelfHealOnlyTooManyFailures ==
    [][(/\ PoolAcquire
        /\ \A i \in 1..Len(entries) : ~Usable(entries, entries[i].id, active_group_id)
        /\ \E i \in 1..Len(entries) :
               entries[i].disabled /\ entries[i].disabled_reason = "TooManyFailures") =>
           /\ Len(entries') = Len(entries)
           /\ \A i \in 1..Len(entries) :
                 IF entries[i].disabled_reason = "TooManyFailures"
                 THEN /\ ~entries'[i].disabled
                      /\ entries'[i].disabled_reason = NoReason
                      /\ entries'[i].failure_count = 0
                      /\ entries'[i].credentials = entries[i].credentials
                 ELSE entries'[i] = entries[i]]_vars

\* the pool a self-heal meets: the first entry disabled by an admin with two
\* failures on its count, the second disabled at its third failure, nothing
\* available, and callers with contexts for both
C14_Witness ==
    /\ Len(entries) = 2
    /\ entries[1].disabled
    /\ entries[1].disabled_reason = "Manual"
    /\ entries[1].failure_count = 2
    /\ entries[2].disabled
    /\ entries[2].disabled_reason = "TooManyFailures"
    /\ entries[2].failure_count = 3
    /\ {h.id : h \in held} = {1, 2}

\* C15: of two requests whose acquire_context meets the same credential with
\* an expired token, one sends a request to the refresh endpoint; the other,
\* once it has the refresh lock, reads the entry again and returns the new
\* token without a refresh of its own
C15_OneRefreshForTwoRequests ==
    /\ req["r1"].refresh_calls + req["r2"].refresh_calls <= 1
    /\ ~(req["r1"].pc = "refreshing" /\ req["r2"].pc = "refreshing")
    /\ \A r \in DOMAIN req :
          req[r].pc = "send" =>
              /\ req[r].credentials.expires_at = "valid"
              /\ \E i \in 1..Len(entries) :
                     /\ entries[i].id = req[r].id
                     /\ entries[i].credentials = req[r].credentials
    /\ (req["r1"].pc = "send" /\ req["r2"].pc = "send") =>
          /\ req["r1"].id = req["r2"].id
          /\ req["r1"].refresh_calls + req["r2"].refresh_calls = 1

\* both requests found the token expired; the first one has refreshed it and
\* has its context, the second one is waiting for the refresh lock
C15_Witness ==
    /\ req["r1"].pc = "send"
    /\ req["r1"].refresh_calls = 1
    /\ req["r2"].pc = "wait_lock"
    /\ req["r2"].id = req["r1"].id
    /\ needs_refresh(req["r2"].credentials)

\* C16: when the refresh of acquire_context fails with a credential-invalid
\* error, the entry is disabled as Suspended with status "invalid" and its
\* failure_count is not touched, no other entry changes, and acquire_context
\* goes on in the same attempt: it switches, counts the credential as tried
\* and, when it selects again, selects another, available credential
C16_InvalidRefreshSuspendsUncharged ==
    [][\A r \in DOMAIN req :
          /\ (/\ req[r].pc = "refreshing"
              /\ req'[r].pc \notin {"refreshing", "send"}
              /\ is_credential_invalid_error(req'[r].error_msg)) =>
                 req'[r].pc = "mark"
          /\ (req[r].pc = "mark" /\ req'[r].pc # "mark") =>
                 /\ req'[r].pc = "switch"
                 /\ Len(entries') = Len(entries)
                 /\ \A i \in 1..Len(entries) :
                       IF entries[i].id = req[r].id
                       THEN /\ entries'[i].disabled
                            /\ entries'[i].disabled_reason = "Suspended"
                            /\ entries'[i].credentials.status = "invalid"
                            /\ entries'[i].failure_count = entries[i].failure_count
                       ELSE entries'[i] = entries[i]
          /\ (req[r].pc = "switch" /\ req'[r].pc # "switch") =>
                 /\ req'[r].pc = "acquire"
                 /\ req'[r].tried_count = req[r].tried_count + 1
                 /\ req'[r].attempt = req[r].attempt
                 /\ \A i \in 1..Len(entries) :
                       entries'[i].failure_count = entries[i].failure_count
          /\ (/\ req[r].pc = "acquire"
              /\ is_credential_invalid_error(req[r].error_msg)
              /\ req'[r].pc \in {"set_current", "wait_lock", "send"}) =>
                 /\ req'[r].id # req[r].id
                 /\ Usable(entries', req'[r].id, active_group_id')]_vars

\* the first credential, two failures on its count, was suspended by a
\* failed refresh, and the same acquire_context has gone on to the second
C16_Witness ==
    /\ Len(entries) = 2
    /\ entries[1].disabled
    /\ entries[1].disabled_reason = "Suspended"
    /\ entries[1].credentials.status = "invalid"
    /\ entries[1].failure_count = 2
    /\ req["r1"].pc = "wait_lock"
    /\ req["r1"].id = 2
    /\ req["r1"].tried_count = 1
    /\ is_credential_invalid_error(req["r1"].error_msg)

\* C17: a refresh that fails with a transient error charges no failure and
\* acquire_context advances to another credential; acquire_context returns an
\* error only when no available credential of the active group is left that
\* could give a token (here: none that holds a fresh one)
C17_FailsOnlyWhenAllTried ==
    [][\A r \in DOMAIN req :
          /\ (/\ req[r].pc = "refreshing"
              /\ req'[r].pc = "switch") =>
                 entries' = entries
          /\ (/\ req[r].pc = "switch"
              /\ ~is_credential_invalid_error(req[r].error_msg)
              /\ req'[r].pc # "switch") =>
                 /\ req'[r].pc = "acquire"
                 /\ req'[r].tried_count = req[r].tried_count + 1
                 /\ entries' = entries
          /\ (req[r].pc = "acquire" /\ req'[r].pc = "for") =>
                 ~\E i \in 1..Len(entries') :
                      /\ Usable(entries', entries'[i].id, active_group_id')
                      /\ ~needs_refresh(entries'[i].credentials)]_vars

\* report_failure(id) twice, report_success(id), report_failure(id) twice
FailFailSucceedFailFail(es, cur, id) ==
    LET f1 == report_failure(es, cur, id)
        f2 == report_failure(f1.entries, f1.current_id, id)
        s3 == report_success(f2.entries, id)
        f4 == report_failure(s3, f2.current_id, id)
        f5 == report_failure(f4.entries, f4.current_id, id)
    IN  [after_success |-> s3, entries |-> f5.entries]

\* C18: report_success(id) sets failure_count of entry id to 0 and changes
\* nothing else; so failures count consecutively: for the holder of a context
\* of an enabled credential without failures, two failures, a success and two
\* more failures leave the credential enabled with two failures
C18_SuccessResetsFailureCount ==
    \A h \in held :
        h.pc = "send" =>
            /\ LET es == report_success(entries, h.id) IN
               /\ Len(es) = Len(entries)
               /\ \A i \in 1..Len(entries) :
                     IF entries[i].id = h.id
                     THEN es[i] = [entries[i] EXCEPT !.failure_count = 0]
                     ELSE es[i] = entries[i]
            /\ \A i \in 1..Len(entries) :
                  (/\ entries[i].id = h.id
                   /\ ~entries[i].disabled
                   /\ entries[i].failure_count = 0) =>
                      LET run == FailFailSucceedFailFail(entries, current_id, h.id) IN
                      /\ run.after_success[i].failure_count = 0
                      /\ ~run.entries[i].disabled
                      /\ run.entries[i].disabled_reason = entries[i].disabled_reason
                      /\ run.entries[i].failure_count = 2

\* the holder of a context is about to report for an enabled credential with
\* two failures on its count, and another holder for one without failures
C18_Witness ==
    \E h1, h2 \in held :
        /\ h1.pc = "send" /\ h2.pc = "send"
        /\ \E i, j \in 1..Len(entries) :
              /\ entries[i].id = h1.id /\ ~entries[i].disabled
              /\ entries[i].failure_count = 2
              /\ entries[j].id = h2.id /\ ~entries[j].disabled
              /\ entries[j].failure_count = 0

IdsOf(es) == {es[i].id : i \in 1..Len(es)}

\* id is the smallest id from 1 on that no entry of es uses
IsSmallestFreeId(es, id) ==
    /\ id >= 1
    /\ id \notin IdsOf(es)
    /\ \A k \in 1..(id - 1) : k \in IdsOf(es)

AddFails(a) ==
    /\ adm'[a].pc = "idle"
    /\ adm'[a].ret = "Err"
    /\ \/ adm[a].pc = "add_refresh"
       \/ adm[a].pc = "idle" /\ ops_left' # ops_left
    /\ \A b \in DOMAIN adm \ {a} : adm'[b] = adm[b]

\* C21: the refresh request of an add is only ever sent for a refresh_token
\* that is present, not empty, of 100 characters at least and without "...",
\* and an add that fails in its validation, its duplicate check or its
\* refresh leaves the entries and the current selection unchanged
C21_RejectedAddLeavesPool ==
    /\ [](\A a \in DOMAIN adm :
             adm[a].pc = "add_refresh" =>
                 LET tok == adm[a].credentials.refresh_token IN
                 /\ tok \notin {"none", ""}
                 /\ TokenLen(tok) >= 100
                 /\ ~ContainsEllipsis(tok))
    /\ [][\A a \in DOMAIN adm :
             AddFails(a) => entries' = entries /\ current_id' = current_id]_vars

\* an add has returned an error as the first operation of the run, with
\* credentials in the pool
C21_Witness ==
    /\ Len(entries) > 0
    /\ ops_left = MaxAddOps - 1
    /\ \E a \in DOMAIN adm : adm[a].pc = "idle" /\ adm[a].ret = "Err"

\* C22: no two entries of the pool have refresh_tokens with the same first 50
\* characters
C22_NoDuplicatePrefix ==
    \A i, j \in 1..Len(entries) :
        i # j => Prefix50(entries[i].credentials.refresh_token)
                     # Prefix50(entries[j].credentials.refresh_token)

\* C23: when the write of the credentials file fails, the admin operation
\* that wrote does not return an error, and the change it made to the entries
\* is kept (for set_disabled and add: the flag is set, the entry is pushed)
C23_FailedWriteStillSucceeds ==
    [][io_failures_left' # io_failures_left =>
          \A a \in DOMAIN adm :
              adm'[a] # adm[a] =>
                  /\ adm'[a].ret # "Err"
                  /\ adm[a].pc = "sd_set" =>
                         entries' = set_disabled(entries, adm[a].id, adm[a].disabled)
                  /\ adm[a].pc = "add_push" =>
                         Len(entries') = Len(entries) + 1]_vars

\* C24: when a new process loads the file, every entry that had status
\* "invalid" in the process before is loaded with status "invalid", disabled
\* and with reason Suspended, and no context is ever returned for an entry of
\* status "invalid"
C24_InvalidSurvivesRestart ==
    /\ [][Restart =>
             \A i \in 1..Len(entries) :
                 entries[i].credentials.status = "invalid" =>
                     \E j \in 1..Len(entries') :
                         /\ entries'[j].id = entries[i].id
                         /\ entries'[j].credentials.status = "invalid"
                         /\ entries'[j].disabled
                         /\ entries'[j].disabled_reason = "Suspended"]_vars
    /\ [](\A r \in DOMAIN req :
             req[r].pc = "send" =>
                 \A i \in 1..Len(entries) :
                     entries[i].id = req[r].id =>
                         entries[i].credentials.status # "invalid")

\* C25: the delete of the current entry leaves current_id on the smallest id
\* among the remaining entries that are available and in the active group;
\* when delete returns, current_id is not the id of the deleted entry, and it
\* is 0 when the pool is empty
C25_DeleteReselects ==
    [][\A a \in DOMAIN adm :
          /\ (adm[a].pc = "del_select" /\ adm'[a].pc = "del_empty") =>
                 (UsableIds(entries, active_group_id) # {} =>
                      /\ current_id' \in UsableIds(entries, active_group_id)
                      /\ \A id \in UsableIds(entries, active_group_id) :
                             current_id' <= id)
          /\ (adm[a].pc = "del_empty" /\ adm'[a].pc = "idle") =>
                 /\ current_id' # adm[a].id
                 /\ Len(entries') = 0 => current_id' = 0]_vars

\* C26: when set_active_group(g) returns, current_id is the smallest id among
\* the entries that are available and belong to g (to any group when g is
\* absent), and 0 when there is no such entry
C26_ActiveGroupSelectsSmallest ==
    [][\A a \in DOMAIN adm :
          (adm[a].pc = "sag_select" /\ adm'[a].pc = "idle") =>
              LET ids == UsableIds(entries', active_group_id') IN
              IF ids = {}
              THEN current_id' = 0
              ELSE /\ current_id' \in ids
                   /\ \A id \in ids : current_id' <= id]_vars

\* the active group is g2 and the selection is on credential 2 of that group,
\* while credential 1, of the default group, is available
C26_Witness ==
    /\ active_group_id = "g2"
    /\ current_id = 2
    /\ \E i \in 1..Len(entries) :
          /\ entries[i].id = 1
          /\ is_available(entries[i])
          /\ entries[i].credentials.group_id = "default"
    /\ \A a \in DOMAIN adm : adm[a].pc = "idle" /\ adm[a].ret = "Ok"
    /\ held = {}

\* the positions of the entries that are available and in the active group
UsableIdxs(es, active) == {i \in 1..Len(es) : Usable(es, es[i].id, active)}

\* C27: switch_to_next returns false and leaves current_id alone when at most
\* one entry is available in the active group; otherwise it returns true and
\* current_id becomes the id of the available in-group entry that follows
\* the current one in list order, the first of them after the last, and the
\* first of them when the current entry is not among them
C27_SwitchToNextRoundRobin ==
    [][\A a \in DOMAIN adm :
          SwitchToNext(a) =>
              LET idxs == UsableIdxs(entries, active_group_id)
                  here == {i \in idxs : entries[i].id = current_id}
                  after == {i \in idxs : \A h \in here : i > h}
                  first(S) == CHOOSE i \in S : \A j \in S : i <= j
              IN  IF Cardinality(idxs) <= 1
                  THEN adm'[a].ret = "false" /\ current_id' = current_id
                  ELSE /\ adm'[a].ret = "true"
                       /\ current_id' =
                              IF here # {} /\ after # {}
                              THEN entries[first(after)].id
                              ELSE entries[first(idxs)].id]_vars

\* switch_to_next has returned true and wrapped around: the selection is on
\* credential 1 of three available credentials
C27_Witness ==
    /\ Len(entries) = MaxEntries + 1
    /\ \A i \in 1..Len(entries) : is_available(entries[i])
    /\ active_group_id = NoGroup
    /\ current_id = 1
    /\ adm["a1"].pc = "idle"
    /\ adm["a1"].ret = "true"

\* C28: when an active group is set and no entry of it is available, the
\* selection of acquire_context returns no context and leaves the entries of
\* the other groups as they were
C28_OtherGroupsUntouched ==
    [][(/\ PoolAcquire
        /\ active_group_id # NoGroup
        /\ UsableIds(entries, active_group_id) = {}) =>
           /\ held' = held
           /\ \A i \in 1..Len(entries) :
                  entries[i].credentials.group_id # active_group_id =>
                      entries'[i] = entries[i]]_vars

\* C29: when the admin has disabled the proxy, a stream in progress that
\* checks its proxy-enabled flag (at the top of a turn or after the sleep of
\* 500 ms) emits one error event of type service_unavailable and is
\* finished, in the single-port and in the dual-port mode
C29_DisabledProxyEndsStream ==
    [][(/\ StreamTop \/ StreamSample
        /\ ~gateway.stream.finished
        /\ ~gateway.flag[gateway.admin_flag]) =>
           /\ gateway'.stream.events =
                  Append(gateway.stream.events, ServiceUnavailable)
           /\ gateway'.stream.finished]_vars

\* C30: the stop_reason of a non-streaming response is "tool_use" whenever a
\* tool-use event was decoded, also when a ContentLengthExceededException
\* came in the same body; otherwise it is "max_tokens" when that exception
\* came, and "end_turn" when it did not
C30_ToolUseWins ==
    LET ns == gateway.non_stream
        decoded(f) == \E i \in 1..Len(ns.body) : ns.body[i] = f
    IN  ns.stop_reason # "none" =>
            ns.stop_reason =
                IF decoded("ToolUse") THEN "tool_use"
                ELSE IF decoded("Exception ContentLengthExceededException")
                     THEN "max_tokens"
                     ELSE "end_turn"

\* the step changes the pool as the operations of C31 do: an entry is added or
\* removed, or the disabled flag, the status or the group of an entry changes
PoolMutated ==
    \/ IdsOf(entries') # IdsOf(entries)
    \/ \E i \in 1..Len(entries), j \in 1..Len(entries') :
          /\ entries[i].id = entries'[j].id
          /\ \/ entries[i].disabled # entries'[j].disabled
             \/ entries[i].credentials.status # entries'[j].credentials.status
             \/ entries[i].credentials.group_id # entries'[j].credentials.group_id

\* the step wrote the file or tried to: after it the file holds the
\* credentials of the entries, or a write has failed
PersistAttempted ==
    \/ disk' = CredsOf(entries')
    \/ io_failures_left' # io_failures_left

\* C31: every operation that mutates the pool ends with a persist attempt:
\* the admin mutations, the self-heal of acquire_context and the disabling
\* of a credential by report_failure at its third failure (delete_credential
\* removes the entry in its first block and writes the file in its last)
C31_MutationEndsWithPersist ==
    [][/\ (PoolMutated /\ ~\E a \in DOMAIN adm :
                              adm[a].pc = "idle" /\ adm'[a].pc \in {"del_select", "del_empty"})
              => PersistAttempted
       /\ (\E a \in DOMAIN adm : adm[a].pc = "del_empty" /\ adm'[a].pc = "idle")
              => PersistAttempted]_vars

\* the refresh tokens an answer of the refresh endpoint may carry
CarriedRefreshTokens == {data.refresh_token : data \in RotatingResponses} \ {"none"}

\* the entry of this id, when there is one, holds after the step the access
\* token and the expiry of new_creds and, when the answer carried a refresh
\* token, that refresh token
StoresRefreshResult(id, new_creds) ==
    \A i \in 1..Len(entries') :
        entries'[i].id = id =>
            /\ entries'[i].credentials.access_token = new_creds.access_token
            /\ entries'[i].credentials.expires_at = new_creds.expires_at
            /\ new_creds.refresh_token \in CarriedRefreshTokens =>
                   entries'[i].credentials.refresh_token = new_creds.refresh_token

\* C32: after every successful token refresh, whichever path performed it
\* (acquire_context, refresh_token_for, refresh_all_credentials,
\* get_usage_limits_for), the entry stores the access_token and expires_at of
\* the response and, when the response carried one, its refresh_token
C32_RefreshResultStored ==
    [][/\ \A r \in DOMAIN req :
            (RefreshRotating(r) /\ req'[r].pc = "send") =>
                StoresRefreshResult(req[r].id, req'[r].credentials)
       /\ \A a \in DOMAIN adm :
            /\ RefreshTokenForStore(a) =>
                   StoresRefreshResult(adm[a].id, adm[a].credentials)
            /\ RefreshAllStore(a) =>
                   StoresRefreshResult(adm'[a].id, adm'[a].credentials)
            /\ GetUsageLimitsForStore(a) =>
                   StoresRefreshResult(adm[a].id, adm[a].credentials)]_vars

\* the step leaves the group and the status of the entry of this id as they
\* are
KeepsGroupAndStatus(id) ==
    \A i \in 1..Len(entries), j \in 1..Len(entries') :
        (entries[i].id = id /\ entries'[j].id = id) =>
            /\ entries'[j].credentials.group_id = entries[i].credentials.group_id
            /\ entries'[j].credentials.status = entries[i].credentials.status

\* C36: a token refresh that completes does not revert what was changed in
\* the same entry while its HTTP call was in flight: when the result is
\* stored (by acquire_context, refresh_all_credentials or
\* get_usage_limits_for) the entry keeps the group_id and the status it has
C36_RefreshKeepsConcurrentChanges ==
    [][/\ \A r \in DOMAIN req :
            (RefreshRotating(r) /\ req'[r].pc = "send") => KeepsGroupAndStatus(req[r].id)
       /\ \A a \in DOMAIN adm :
            /\ RefreshAllStore(a) => KeepsGroupAndStatus(adm'[a].id)
            /\ GetUsageLimitsForStore(a) => KeepsGroupAndStatus(adm[a].id)]_vars

\* the step changes no entry but those that hold the credential of this
\* refresh token (a credential keeps its refresh token in SpecReuse)
ChangesOnlyCredential(tok) ==
    /\ Len(entries') = Len(entries)
    /\ \A i \in 1..Len(entries) :
          entries'[i] # entries[i] => entries[i].credentials.refresh_token = tok

\* C37: report_success, report_failure and the refresh write-back issued for
\* a CallContext change only the credential the context was acquired from,
\* also when that credential is deleted and its id given to a newly added
\* credential while the request is in flight
C37_ReportsReachOwnCredential ==
    [][\A r \in DOMAIN req :
          (Respond(r) \/ RefreshSucceeds(r)) =>
              ChangesOnlyCredential(req[r].credentials.refresh_token)]_vars

\* C38: an entry that an admin disabled manually stays disabled, whatever
\* report_failure and report_success calls of requests in flight and
\* whatever acquire_context calls (with their self-heal) come afterwards, as
\* long as no admin enables it.  The only admin operation of SpecManual is
\* set_disabled(id, true): once it has returned Ok, the entry it disabled is
\* still there and disabled, so some entry is disabled
C38_ManualNeverSelfHealed ==
    \A a \in DOMAIN adm :
        adm[a].ret = "Ok" => \E i \in 1..Len(entries) : entries[i].disabled

\* the process has loaded the file and changed nothing since
LoadedUnchanged == entries = LoadEntries(disk)

\* C33, as stated: loading a credentials file written by persist_credentials
\* and persisting it again without any mutation writes the same content, the
\* same credentials in the same order with the same fields, for every order
\* in which the entries were added and every priority they carry
C33_ReloadPersistIdentity ==
    [][(PersistCredentials /\ LoadedUnchanged) => disk' = disk]_vars

\* the priorities of the file do not decrease along the list
PrioritiesAscend(file) ==
    \A i, j \in 1..Len(file) : i < j => file[i].priority <= file[j].priority

\* new holds the credentials of old, each once and with the same fields;
\* two of them stand in new in the order of their priorities and, when the
\* priorities are equal, in the order they have in old
SortedByPriority(old, new) ==
    /\ Len(new) = Len(old)
    /\ \E perm \in [1..Len(old) -> 1..Len(old)] :
          /\ \A i, j \in 1..Len(old) : i # j => perm[i] # perm[j]
          /\ \A i \in 1..Len(old) : new[perm[i]] = old[i]
          /\ \A i, j \in 1..Len(old) :
                (\/ old[i].priority < old[j].priority
                 \/ old[i].priority = old[j].priority /\ i < j) => perm[i] < perm[j]

\* C33, amended: loading a credentials file written by persist_credentials
\* and persisting it again without any mutation writes the same credentials
\* with the same fields, sorted by priority (equal priorities keep their
\* order); the content is the same when the priorities of the file do not
\* decrease along the list
C33_ReloadPersistSorts ==
    [][(PersistCredentials /\ LoadedUnchanged) =>
           /\ SortedByPriority(disk, disk')
           /\ PrioritiesAscend(disk) => disk' = disk]_vars

\* a file of two credentials, the larger priority first, was loaded and
\* written again: the credential of id 2 now comes first
C33_Witness ==
    /\ Len(disk) = 2
    /\ disk = CredsOf(entries)
    /\ disk[1].id = 2
    /\ disk[2].id = 1
    /\ disk[1].priority < disk[2].priority
    /\ \A a \in DOMAIN adm : adm[a].ret = "none"

\* the positions of the terminal events among the events of the stream: the
\* final events and the service_unavailable error event
TerminalPositions ==
    {i \in 1..Len(gateway.stream.events) :
        gateway.stream.events[i] \in {"message_stop", ServiceUnavailable}}

\* C34: a streaming response produces one terminal output, the final events
\* (upstream end or read error) or the service_unavailable error event
\* (proxy disabled), never both; nothing is emitted after it; the stream
\* closes only after it; and the initial events come first, before every
\* event made from upstream data
C34_OneTerminalOutput ==
    LET events == gateway.stream.events IN
    /\ Cardinality(TerminalPositions) <= 1
    /\ \A i \in TerminalPositions : i = Len(events)
    /\ gateway.stream.finished <=> TerminalPositions # {}
    /\ gateway.stream.pc = "closed" => Cardinality(TerminalPositions) = 1
    /\ gateway.stream.pc # "none" =>
          /\ events[1] = "message_start"
          /\ \A i \in 2..Len(events) : events[i] # "message_start"

\* a stream that has emitted content was ended by the error event and has
\* closed
C34_Witness ==
    /\ gateway.stream.pc = "closed"
    /\ gateway.stream.events = <<"message_start", "content", ServiceUnavailable>>

\* the order the claim gives the mutexes
LockRank(m) ==
    CASE m = "entries" -> 1
      [] m = "current_id" -> 2
      [] m = "active_group_id" -> 3

\* a task that gets a mutex holds none that comes later in the order, nor
\* that mutex itself
AcquiresInOrder ==
    \A a \in DOMAIN adm, m \in Mutexes :
        (gateway.mutex[m] # a /\ gateway'.mutex[m] = a)
            => \A h \in HeldBy(a) : LockRank(h) < LockRank(m)

\* a task that waits for the refresh lock or for the answer of the refresh
\* call holds no mutex
NoneHeldAcrossAwait ==
    \A a \in DOMAIN adm :
        adm[a].pc \in {"te_wait", "te_http"} => HeldBy(a) = {}

\* while a task is inside an operation, some task inside an operation can
\* take its next step
NoDeadlock == (\E a \in DOMAIN adm : adm[a].pc # "idle") => ENABLED PoolStep

\* C39: acquire_context, report_failure, switch_to_next, set_active_group,
\* delete_credential and snapshot take the mutexes in the order entries,
\* current_id, active_group_id, hold none of them while they wait for the
\* refresh lock or for the refresh call, and never block one another for good
C39_LockOrderNoDeadlock ==
    /\ [][AcquiresInOrder]_vars
    /\ [](NoneHeldAcrossAwait /\ NoDeadlock)

\* one task is in select_smallest_id_in_group with the three mutexes, the
\* other waits for entries at the start of the selection of acquire_context
C39_Witness ==
    \E a, b \in DOMAIN adm :
        /\ adm[a].pc = "ssg_eca"
        /\ HeldBy(a) = Mutexes
        /\ adm[b].pc = "ac"

\* the task serves and was not told to stop: it accepts connections, its
\* receiver saw no shutdown
ServesOn(t) ==
    /\ gateway.server.tasks[t].state = "serving"
    /\ ~gateway.server.tasks[t].shutdown

\* C40: while a proxy server task the controller started serves and was not
\* told to stop, is_running() is true, whatever earlier tasks do when they
\* finish; and no two such tasks serve at a time
C40_RunningWhileServing ==
    /\ \A t \in 1..Len(gateway.server.tasks) : ServesOn(t) => gateway.is_running
    /\ Cardinality({t \in 1..Len(gateway.server.tasks) : ServesOn(t)}) <= 1

\* C35: once no operation is under way, and no write of the file failed, the
\* file holds the credentials of the entries in memory: no persist leaves an
\* older clone on disk after a newer one
C35_FileEqualsMemoryAtRest ==
    (/\ \A r \in DOMAIN req : req[r].pc \in {"idle", "done"}
     /\ \A a \in DOMAIN adm : adm[a].pc = "idle")
        => disk = CredsOf(entries)

====
